---------------------------- MODULE Spec2Model ----------------------------
(***************************************************************************)
(* A model of src/listen_stock.py: the symbol state store, the polling    *)
(* loop, the config reconciler, the alert detector, the close-price cache *)
(* and the snapshot persister.                                            *)
(*                                                                         *)
(* Conventions                                                             *)
(*  - An optional value (Python None or a value) is a sequence of length  *)
(*    0 or 1: None == << >>, Some(v) == <<v>>.                            *)
(*  - Prices, quantities and funds are integers.  A Python float that is  *)
(*    the result of a division is kept as an exact fraction [n, d].       *)
(*  - Sub-second time is counted in ticks of 0.1 s.  A timestamp the code *)
(*    only ever subtracts from "now" (last_time, last_request_time) is    *)
(*    kept as its age in ticks, capped at the largest value the code      *)
(*    compares it with.                                                    *)
(*  - The calendar is a day number `today` and a minute of the day `tod`. *)
(***************************************************************************)
EXTENDS Integers, Sequences, FiniteSets, TLC

\* ------------------------------------------------------------ bounds
\* Largest price a provider returns (prices are 1..MaxPrice).
MaxPrice == 2
\* Last calendar day of a run (days are 1..MaxDate; day 0 is the day before).
MaxDate == 2
\* Largest number of edits of the configuration file in a run.
MaxEdits == 1
\* Longest time, in ticks, one quote lookup takes.
MaxCallTicks == 0

\* --------------------------------------------------- program constants
\* POLL_INTERVAL = 0.5 s, in ticks.
POLL_INTERVAL == 5
\* MIN_REQUEST_INTERVAL = 0.3 s, in ticks.
MIN_REQUEST_INTERVAL == 3
\* MAX_RANDOM_DELAY = 0.2 s, in ticks.
MAX_RANDOM_DELAY == 2
\* RETRY_DELAY = 2 s, in ticks.
RETRY_DELAY == 20
\* time.sleep(0.2) between two symbols, in ticks.
SYMBOL_DELAY == 2
\* The "at least one second since the last sample" of should_update, in ticks.
ONE_SECOND == 10
STOP_UPDATE_HOUR == 15
STOP_UPDATE_MINUTE == 1

\* ------------------------------------------------------------ values
None == << >>
Some(v) == <<v>>
IsNone(o) == o = << >>
Val(o) == o[1]

Min(a, b) == IF a <= b THEN a ELSE b
Range(seq) == {seq[i] : i \in 1..Len(seq)}

\* A value of the configuration file that float() rejects (a JSON string
\* such as "abc") or that cannot be added to a number.
NotANumber == -99

Prices == 1..MaxPrice

\* The symbols of the model: one A-share code and one US ticker.
ACode == "600000"
UCode == "TSLA"
Codes == {ACode, UCode}

\* is_us_stock: the code is made of 1 to 5 letters.
is_us_stock(stock_code) == stock_code \in {UCode}

\* get_stock_name: the default display name of a symbol.
get_stock_name(stock_code) ==
    IF is_us_stock(stock_code) THEN stock_code ELSE "sh600000"

\* The name the provider reports for a symbol.
ProviderName(stock_code) ==
    IF is_us_stock(stock_code) THEN "Tesla" ELSE "PFYH"

\* ------------------------------------------------------ Cost Calculator
RECURSIVE SumQuantity(_), SumCost(_)
SumQuantity(transactions) ==
    IF transactions = << >> THEN 0
    ELSE LET trans == Head(transactions)
         IN  (IF trans.quantity > 0 /\ trans.price > 0 THEN trans.quantity ELSE 0)
             + SumQuantity(Tail(transactions))
SumCost(transactions) ==
    IF transactions = << >> THEN 0
    ELSE LET trans == Head(transactions)
         IN  (IF trans.quantity > 0 /\ trans.price > 0
              THEN trans.quantity * trans.price ELSE 0)
             + SumCost(Tail(transactions))

\* float(trans.get('quantity')) or float(trans.get('price')) raises.
TransactionsRaise(transactions) ==
    \E i \in 1..Len(transactions) :
        \/ transactions[i].quantity = NotANumber
        \/ transactions[i].price = NotANumber

\* calculate_holding_from_transactions: (total quantity, average price);
\* the average price total_cost / total_quantity is the fraction [n, d],
\* and 0.0 is [n |-> 0, d |-> 1].
calculate_holding_from_transactions(transactions) ==
    LET total_quantity == SumQuantity(transactions)
        total_cost     == SumCost(transactions)
    IN  [quantity  |-> total_quantity,
         avg_price |-> IF total_quantity > 0
                       THEN [n |-> total_cost, d |-> total_quantity]
                       ELSE [n |-> 0, d |-> 1]]

\* ------------------------------------------------------- Alert Detector
\* A detector without hysteresis: the up alert fires on every poll at or
\* above the threshold.
AlertUpFiresEveryPoll(state, current_price) ==
    /\ ~IsNone(state.alert_up)
    /\ current_price >= Val(state.alert_up)

\* A detector that reads the flag the other way round: the up alert fires
\* while the flag is set.
AlertUpFiresWhileFlagged(state, current_price) ==
    /\ ~IsNone(state.alert_up)
    /\ current_price >= Val(state.alert_up)
    /\ \/ state.alert_triggered_up
       \/ (~IsNone(state.last_price) /\ Val(state.last_price) < Val(state.alert_up))

\* The first branch of check_price_alert: the up alert fires.
AlertUpFires(state, current_price) ==
    /\ ~IsNone(state.alert_up)
    /\ current_price >= Val(state.alert_up)
    /\ \/ ~state.alert_triggered_up
       \/ (~IsNone(state.last_price) /\ Val(state.last_price) < Val(state.alert_up))

\* A down alert that fires at or above its threshold.
AlertDownFiresAbove(state, current_price) ==
    /\ ~IsNone(state.alert_down)
    /\ current_price >= Val(state.alert_down)
    /\ \/ ~state.alert_triggered_down
       \/ (~IsNone(state.last_price) /\ Val(state.last_price) > Val(state.alert_down))

\* The second branch of check_price_alert: the down alert fires.
AlertDownFires(state, current_price) ==
    /\ ~IsNone(state.alert_down)
    /\ current_price <= Val(state.alert_down)
    /\ \/ ~state.alert_triggered_down
       \/ (~IsNone(state.last_price) /\ Val(state.last_price) > Val(state.alert_down))

\* A detector without the reset of lines 663-667: a flag once set stays.
check_price_alert_no_reset(state, current_price) ==
    LET triggered_up   == AlertUpFires(state, current_price)
        triggered_down == AlertDownFires(state, current_price)
    IN  [state |-> [state EXCEPT
                      !.alert_triggered_up = state.alert_triggered_up \/ triggered_up,
                      !.alert_triggered_down = state.alert_triggered_down \/ triggered_down],
         triggered_up   |-> triggered_up,
         triggered_down |-> triggered_down]

\* check_price_alert: the flags it leaves in the state and what it returns.
check_price_alert(state, current_price) ==
    LET triggered_up   == AlertUpFires(state, current_price)
        triggered_down == AlertDownFires(state, current_price)
        flag_up   == IF ~IsNone(state.alert_up) /\ current_price < Val(state.alert_up)
                     THEN FALSE
                     ELSE (state.alert_triggered_up \/ triggered_up)
        flag_down == IF ~IsNone(state.alert_down) /\ current_price > Val(state.alert_down)
                     THEN FALSE
                     ELSE (state.alert_triggered_down \/ triggered_down)
    IN  [state |-> [state EXCEPT !.alert_triggered_up = flag_up,
                                 !.alert_triggered_down = flag_down],
         triggered_up   |-> triggered_up,
         triggered_down |-> triggered_down]


\* ------------------------------------------------------- clock helpers
\* should_stop_updating: the time of day is 15:01 or later.
should_stop_updating(minuteOfDay) ==
    LET hour   == minuteOfDay \div 60
        minute == minuteOfDay % 60
    IN  \/ hour > STOP_UPDATE_HOUR
        \/ (hour = STOP_UPDATE_HOUR /\ minute >= STOP_UPDATE_MINUTE)

\* A first window that is never taken to wrap past midnight.
InMorningPlain(morning, current_time) ==
    morning.start <= current_time /\ current_time <= morning.end

\* A window of a market configuration holds the time (the code compares
\* zero-padded "HH:MM" strings, which order as the minute of the day does).
InMorning(morning, current_time) ==
    IF morning.start > morning.end
    THEN current_time >= morning.start \/ current_time <= morning.end
    ELSE morning.start <= current_time /\ current_time <= morning.end

InAfternoon(afternoon, current_time) ==
    afternoon.start <= current_time /\ current_time <= afternoon.end

\* A gate that does not look at the weekday.
is_trading_time_any_day(stock_code, market_hours_config, dayOfWeek, current_time) ==
    LET market_config == IF is_us_stock(stock_code)
                         THEN market_hours_config.us
                         ELSE market_hours_config.a
    IN  IF ~market_config.enabled THEN TRUE
        ELSE IF ~IsNone(market_config.morning)
                /\ InMorning(Val(market_config.morning), current_time) THEN TRUE
        ELSE IF ~IsNone(market_config.afternoon)
                /\ InAfternoon(Val(market_config.afternoon), current_time) THEN TRUE
        ELSE FALSE

\* is_trading_time for the market configuration of the symbol's market.
is_trading_time(stock_code, market_hours_config, dayOfWeek, current_time) ==
    LET market_config == IF is_us_stock(stock_code)
                         THEN market_hours_config.us
                         ELSE market_hours_config.a
    IN  IF ~market_config.enabled THEN TRUE
        ELSE IF dayOfWeek \notin market_config.weekdays THEN FALSE
        ELSE IF ~IsNone(market_config.morning)
                /\ InMorning(Val(market_config.morning), current_time) THEN TRUE
        ELSE IF ~IsNone(market_config.afternoon)
                /\ InAfternoon(Val(market_config.afternoon), current_time) THEN TRUE
        ELSE FALSE

\* ------------------------------------------------------- files of history/
\* A file of CACHE_DIR is absent, a DailySnapshot, a plain code -> price
\* mapping written by save_yesterday_close_cache, or a truncated write.
NoFile == [kind |-> "none"]
CorruptFile == [kind |-> "corrupt"]
CacheFile(cache) == [kind |-> "cache", map |-> cache]

\* A dict as a function on the set of its keys.
EmptyMap == [c \in {} |-> 0]
HasKey(map, key) == key \in DOMAIN map
Put(map, key, value) == [c \in (DOMAIN map) \cup {key} |-> IF c = key THEN value ELSE map[c]]

\* load_yesterday_close_cache: only a file with the keys 'date' and 'stocks'
\* yields entries (code -> price of each stock entry); anything else is {}.
load_yesterday_close_cache(file) ==
    IF file.kind = "snapshot"
    THEN [c \in DOMAIN file.stocks |-> file.stocks[c].price]
    ELSE EmptyMap

\* save_yesterday_close_cache: json.dump of the mapping over the file of the
\* date; a storage failure is swallowed (the file is then as it was, or
\* truncated when the failure came after open(..., 'w')).
save_yesterday_close_cache(fs, cache, date, w) ==
    CASE w = "ok"       -> [fs EXCEPT ![date] = CacheFile(cache)]
      [] w = "truncate" -> [fs EXCEPT ![date] = CorruptFile]
      [] OTHER          -> fs

\* ------------------------------------------------------------ provider
\* What one provider call does: it answers, fails, fails with a rate-limit
\* message, or is cut by a KeyboardInterrupt raised inside it.
CallFailures == {"fail", "rate", "intr"}

\* The outcome of the calls one get_realtime_price may make:
\*   q, price, prev    first endpoint (EM for an A-share, XQ for a US ticker)
\*                     and the previous close that endpoint's data carries
\*                     (for an A-share: the stock_zh_a_spot_em lookup, with
\*                     status sq)
\*   q2, price2, prev2 the XQ fallback of an A-share
\*   w                 what a write of the close cache file does
Outcome(q, price, sq, prev, q2, price2, prev2, w) ==
    [q |-> q, price |-> price, sq |-> sq, prev |-> prev,
     q2 |-> q2, price2 |-> price2, prev2 |-> prev2, w |-> w]

\* A lookup that caches the previous close in memory only when the write
\* of the cache file went through.
ResolveCloseXQAfterWrite(stock_code, cache, fs, yesterday_date, current_price, prevValue, w) ==
    IF HasKey(cache, stock_code)
    THEN [yc |-> cache[stock_code], cache |-> cache, fs |-> fs]
    ELSE LET file_cache == load_yesterday_close_cache(fs[yesterday_date])
         IN  IF HasKey(file_cache, stock_code)
             THEN [yc |-> file_cache[stock_code], cache |-> cache, fs |-> fs]
             ELSE IF ~IsNone(prevValue)
             THEN [yc |-> Val(prevValue),
                   cache |-> IF w = "ok" THEN Put(cache, stock_code, Val(prevValue))
                             ELSE cache,
                   fs |-> save_yesterday_close_cache(
                              fs, Put(file_cache, stock_code, Val(prevValue)),
                              yesterday_date, w)]
             ELSE [yc |-> current_price, cache |-> cache, fs |-> fs]

\* The lookup of the previous close after the memory cache missed, for the
\* XQ branches (lines 446-459 and 548-559): file cache, then the value of
\* the quote, then the current price.
ResolveCloseXQ(stock_code, cache, fs, yesterday_date, current_price, prevValue, w) ==
    IF HasKey(cache, stock_code)
    THEN [yc |-> cache[stock_code], cache |-> cache, fs |-> fs]
    ELSE LET file_cache == load_yesterday_close_cache(fs[yesterday_date])
         IN  IF HasKey(file_cache, stock_code)
             THEN [yc |-> file_cache[stock_code], cache |-> cache, fs |-> fs]
             ELSE IF ~IsNone(prevValue)
             THEN [yc |-> Val(prevValue),
                   cache |-> Put(cache, stock_code, Val(prevValue)),
                   fs |-> save_yesterday_close_cache(
                              fs, Put(file_cache, stock_code, Val(prevValue)),
                              yesterday_date, w)]
             ELSE [yc |-> current_price, cache |-> cache, fs |-> fs]

\* Whether the EM branch has to ask stock_zh_a_spot_em (lines 489-499).
NeedsSpot(stock_code, cache, fs, yesterday_date) ==
    /\ ~HasKey(cache, stock_code)
    /\ ~HasKey(load_yesterday_close_cache(fs[yesterday_date]), stock_code)

\* The same lookup in the EM branch (lines 488-512): the value comes from a
\* further provider call, whose failure is swallowed.
ResolveCloseEM(stock_code, cache, fs, yesterday_date, current_price, o) ==
    IF NeedsSpot(stock_code, cache, fs, yesterday_date)
    THEN ResolveCloseXQ(stock_code, cache, fs, yesterday_date, current_price,
                        IF o.sq = "ok" THEN o.prev ELSE None, o.w)
    ELSE ResolveCloseXQ(stock_code, cache, fs, yesterday_date, current_price, None, o.w)

\* A quote that caches whatever previous close it came to.
QuoteResultCachesAll(stock_code, price, r, label) ==
    [result |-> Some([price |-> price, name |-> ProviderName(stock_code),
                      yesterday_close |-> r.yc, update_time |-> label]),
     cache |-> Put(r.cache, stock_code, r.yc), fs |-> r.fs]

QuoteResult(stock_code, price, r, label) ==
    [result |-> Some([price |-> price, name |-> ProviderName(stock_code),
                      yesterday_close |-> r.yc, update_time |-> label]),
     cache |-> r.cache, fs |-> r.fs]

NoQuote(cache, fs) == [result |-> None, cache |-> cache, fs |-> fs]

\* get_realtime_price: the result (None or price, name, previous close and
\* update label), the memory cache and the files it leaves.  Every
\* provider call sits in a bare `except:`, so a failure of any kind,
\* KeyboardInterrupt included, only moves on to the next branch.
get_realtime_price(stock_code, cache, fs, day, label, o) ==
    LET yesterday_date == day - 1
    IN  IF is_us_stock(stock_code)
        THEN IF o.q = "ok"
             THEN QuoteResult(stock_code, o.price,
                      ResolveCloseXQ(stock_code, cache, fs, yesterday_date,
                                     o.price, o.prev, o.w), label)
             ELSE NoQuote(cache, fs)
        ELSE IF o.q = "ok"
             THEN QuoteResult(stock_code, o.price,
                      ResolveCloseEM(stock_code, cache, fs, yesterday_date,
                                     o.price, o), label)
             ELSE IF o.q2 = "ok"
             THEN QuoteResult(stock_code, o.price2,
                      ResolveCloseXQ(stock_code, cache, fs, yesterday_date,
                                     o.price2, o.prev2, o.w), label)
             ELSE NoQuote(cache, fs)

\* The provider calls that invocation made, in order, as their statuses.
QuoteCalls(stock_code, cache, fs, day, o) ==
    IF is_us_stock(stock_code) THEN <<o.q>>
    ELSE IF o.q = "ok"
         THEN IF NeedsSpot(stock_code, cache, fs, day - 1) THEN <<o.q, o.sq>> ELSE <<o.q>>
         ELSE <<o.q, o.q2>>

\* The outcomes a provider can produce for that invocation (fields that
\* play no part are fixed).
QuoteOutcomes(stock_code, cache, fs, day, writes, closes) ==
    LET prevs == {None} \cup {Some(v) : v \in closes}
        miss  == NeedsSpot(stock_code, cache, fs, day - 1)
        ws    == IF miss THEN writes ELSE {"ok"}
    IN  IF is_us_stock(stock_code)
        THEN {Outcome("ok", p, "skip", y, "skip", 1, None, w) :
                  p \in Prices, y \in (IF miss THEN prevs ELSE {None}), w \in ws}
             \cup {Outcome(k, 1, "skip", None, "skip", 1, None, "ok") : k \in CallFailures}
        ELSE {Outcome("ok", p, "ok", Some(y), "skip", 1, None, w) :
                  p \in Prices, y \in (IF miss THEN closes ELSE {1}), w \in ws}
             \cup (IF miss
                   THEN {Outcome("ok", p, k, None, "skip", 1, None, "ok") :
                             p \in Prices, k \in CallFailures}
                   ELSE {})
             \cup {Outcome(k, 1, "skip", None, "ok", p, y, w) :
                       k \in CallFailures, p \in Prices,
                       y \in (IF miss THEN prevs ELSE {None}), w \in ws}
             \cup {Outcome(k, 1, "skip", None, k2, 1, None, "ok") :
                       k \in CallFailures, k2 \in CallFailures}


\* ---------------------------------------------------- Snapshot Persister
\* Exact arithmetic on the fractions [n, d].
Frac(n, d) == [n |-> n, d |-> d]
FracAdd(x, y) == [n |-> x.n * y.d + y.n * x.d, d |-> x.d * y.d]
FracEq(x, y) == x.n * y.d = y.n * x.d

\* What get_stock_daily_data gives for one symbol: the close of the bar of
\* the date, or None when the call fails (every failure, KeyboardInterrupt
\* included, is swallowed by its bare `except:`).
NoBar == [status |-> "none", close |-> 0]
Bar(close) == [status |-> "ok", close |-> close]
BarClose(bar) == IF bar.status = "ok" THEN Some(bar.close) ELSE None

\* The symbols save_yesterday_history writes: those with a known price.
PricedCodes(states) == {c \in DOMAIN states : ~IsNone(states[c].last_price)}

\* One entry of 'stocks' (lines 268-311).
StockSnapshot(code, state, cache, bar) ==
    LET kline          == BarClose(bar)
        price_for_calc == IF ~IsNone(kline) THEN Val(kline) ELSE Val(state.last_price)
        holds          == state.holding_quantity > 0
        holding_value  == IF holds THEN Some(price_for_calc * state.holding_quantity)
                          ELSE None
        profit         == IF holds /\ ~IsNone(state.holding_price)
                          THEN Some(Frac((price_for_calc * Val(state.holding_price).d
                                          - Val(state.holding_price).n)
                                         * state.holding_quantity,
                                         Val(state.holding_price).d))
                          ELSE None
    IN  [code |-> code,
         name |-> state.last_stock_name,
         price |-> price_for_calc,
         change_pct |-> state.last_change_pct,
         update_time |-> state.last_update_time,
         holding_price |-> state.holding_price,
         holding_quantity |-> state.holding_quantity,
         holding_value |-> holding_value,
         profit |-> profit,
         yesterday_close |-> IF HasKey(cache, code) THEN Some(cache[code]) ELSE None,
         transactions |-> state.transactions,
         kline |-> [close |-> price_for_calc, fetched |-> ~IsNone(kline)]]

RECURSIVE SumHoldingValue(_, _), SumProfit(_, _)
SumHoldingValue(stocks, codes) ==
    IF codes = {} THEN 0
    ELSE LET c == CHOOSE x \in codes : TRUE
         IN  (IF IsNone(stocks[c].holding_value) THEN 0 ELSE Val(stocks[c].holding_value))
             + SumHoldingValue(stocks, codes \ {c})
SumProfit(stocks, codes) ==
    IF codes = {} THEN Frac(0, 1)
    ELSE LET c == CHOOSE x \in codes : TRUE
         IN  FracAdd(IF IsNone(stocks[c].profit) THEN Frac(0, 1) ELSE Val(stocks[c].profit),
                     SumProfit(stocks, codes \ {c}))

\* A snapshot whose 'date' is taken from the clock instead of target_date.
DailySnapshotStamped(states, funds_config, cache, target_date, bars, stamp) ==
    LET stocks == [c \in PricedCodes(states) |->
                       StockSnapshot(c, states[c], cache, bars[c])]
        total_holding_value == SumHoldingValue(stocks, DOMAIN stocks)
    IN  [kind |-> "snapshot",
         date |-> stamp,
         timestamp |-> stamp,
         funds |-> [available_funds |-> funds_config.available_funds,
                    total_original_funds |-> funds_config.total_original_funds,
                    total_assets |-> funds_config.available_funds + total_holding_value,
                    total_holding_value |-> total_holding_value,
                    total_profit |-> SumProfit(stocks, DOMAIN stocks)],
         stocks |-> stocks]

\* The DailySnapshot save_yesterday_history builds (lines 262-331); `bars`
\* gives the daily bar of each symbol and `stamp` is datetime.now().
DailySnapshot(states, funds_config, cache, target_date, bars, stamp) ==
    LET stocks == [c \in PricedCodes(states) |->
                       StockSnapshot(c, states[c], cache, bars[c])]
        total_holding_value == SumHoldingValue(stocks, DOMAIN stocks)
    IN  [kind |-> "snapshot",
         date |-> target_date,
         timestamp |-> stamp,
         funds |-> [available_funds |-> funds_config.available_funds,
                    total_original_funds |-> funds_config.total_original_funds,
                    total_assets |-> funds_config.available_funds + total_holding_value,
                    total_holding_value |-> total_holding_value,
                    total_profit |-> SumProfit(stocks, DOMAIN stocks)],
         stocks |-> stocks]

\* available_funds + total_holding_value raises (a non-numeric value of the
\* configuration): save_yesterday_history swallows it and writes nothing.
SnapshotRaises(funds_config) == funds_config.available_funds = NotANumber

\* save_yesterday_history: the files after it.  A storage failure and an
\* error while building the snapshot are swallowed by `except Exception`.
save_yesterday_history(fs, states, funds_config, cache, target_date, bars, stamp, w) ==
    IF SnapshotRaises(funds_config) THEN fs
    ELSE CASE w = "ok" ->
                [fs EXCEPT ![target_date] =
                    DailySnapshot(states, funds_config, cache, target_date, bars, stamp)]
           [] w = "truncate" -> [fs EXCEPT ![target_date] = CorruptFile]
           [] OTHER -> fs

\* The daily-bar calls one save_yesterday_history makes, as their statuses
\* (one per symbol with a known price).
BarCalls(states, bars) ==
    LET RECURSIVE Walk(_)
        Walk(codes) == IF codes = {} THEN << >>
                       ELSE LET c == CHOOSE x \in codes : TRUE
                            IN  <<IF bars[c].status \in CallFailures
                                  THEN bars[c].status ELSE "ok">>
                                \o Walk(codes \ {c})
    IN  Walk(PricedCodes(states))

\* ------------------------------------------------------ generate_display
\* generate_display raises TypeError at `available_funds + total_holding_value`
\* or `total_assets - total_original_funds` when a funds value is no number.
DisplayRaises(funds_config) ==
    \/ funds_config.available_funds = NotANumber
    \/ funds_config.total_original_funds = NotANumber

\* The per-symbol profit of lines 847-848:
\* (last_price - holding_price) * holding_quantity, for a symbol with a
\* known price and a position.
DisplayProfit(state) ==
    IF ~IsNone(state.last_price) /\ state.holding_quantity > 0
       /\ ~IsNone(state.holding_price)
    THEN Some(Frac((Val(state.last_price) * Val(state.holding_price).d
                    - Val(state.holding_price).n) * state.holding_quantity,
                   Val(state.holding_price).d))
    ELSE None

\* The loop of lines 835-868 over the first n polled symbols: the running
\* total_holding_value.
RECURSIVE DisplayHoldingValue(_, _, _)
DisplayHoldingValue(states, codes, n) ==
    IF n = 0 THEN 0
    ELSE LET state == states[codes[n]]
         IN  DisplayHoldingValue(states, codes, n - 1)
             + (IF ~IsNone(state.last_price) /\ state.holding_quantity > 0
                THEN Val(state.last_price) * state.holding_quantity ELSE 0)

\* Metrics whose total assets leave the available funds out.
DisplayMetricsOfHoldings(states, codes, funds) ==
    LET total_holding_value == DisplayHoldingValue(states, codes, Len(codes))
        total_assets        == total_holding_value
    IN  [total_holding_value |-> total_holding_value,
         total_assets |-> total_assets,
         position_pct |-> IF total_assets > 0
                          THEN Frac(total_holding_value * 100, total_assets)
                          ELSE Frac(0, 1),
         total_profit |-> total_assets - funds.total_original_funds,
         profit |-> [c \in Range(codes) |-> DisplayProfit(states[c])]]

\* The figures generate_display shows (lines 832-868 and 982-996), for
\* funds that are numbers.
DisplayMetrics(states, codes, funds) ==
    LET total_holding_value == DisplayHoldingValue(states, codes, Len(codes))
        total_assets        == funds.available_funds + total_holding_value
    IN  [total_holding_value |-> total_holding_value,
         total_assets |-> total_assets,
         position_pct |-> IF total_assets > 0
                          THEN Frac(total_holding_value * 100, total_assets)
                          ELSE Frac(0, 1),
         total_profit |-> total_assets - funds.total_original_funds,
         profit |-> [c \in Range(codes) |-> DisplayProfit(states[c])]]

\* ------------------------------------------------------- configuration
NoMarket == [enabled |-> FALSE, weekdays |-> {}, morning |-> None, afternoon |-> None]
NoMarkets == [a |-> NoMarket, us |-> NoMarket]

\* The configuration load_holdings_config returns for a file it cannot parse.
DefaultConfig ==
    [funds |-> [available_funds |-> 0, total_original_funds |-> 0],
     stocks |-> << >>, privacy_mode |-> FALSE, market_hours |-> NoMarkets]

\* load_holdings_config: the parsed file, or the default configuration when
\* json.load raises (lines 107-109).  `stocks` keeps the order of the file.
load_holdings_config(content) ==
    IF content.parses
    THEN [funds |-> content.funds, stocks |-> content.stocks,
          privacy_mode |-> content.privacy_mode, market_hours |-> content.market_hours]
    ELSE DefaultConfig

\* Building the state of one configured symbol raises (float() of a bad
\* transaction field or alert price).
StockInfoRaises(stock_info) ==
    \/ TransactionsRaise(stock_info.transactions)
    \/ stock_info.alert_up = Some(NotANumber)
    \/ stock_info.alert_down = Some(NotANumber)

\* Holding fields that keep the average price 0.0 of a symbol without a
\* position instead of None.
HoldingFieldsZeroCost(state, stock_info) ==
    LET h == calculate_holding_from_transactions(stock_info.transactions)
    IN  [state EXCEPT
            !.holding_price = Some(h.avg_price),
            !.holding_quantity = h.quantity,
            !.transactions = stock_info.transactions,
            !.alert_up = stock_info.alert_up,
            !.alert_down = stock_info.alert_down,
            !.alert_triggered_up = FALSE,
            !.alert_triggered_down = FALSE]

\* The fields listen_stocks and reload_config_if_changed derive from the
\* configuration of one symbol.
HoldingFields(state, stock_info) ==
    LET h == calculate_holding_from_transactions(stock_info.transactions)
    IN  [state EXCEPT
            !.holding_price = IF h.quantity > 0 THEN Some(h.avg_price) ELSE None,
            !.holding_quantity = h.quantity,
            !.transactions = stock_info.transactions,
            !.alert_up = stock_info.alert_up,
            !.alert_down = stock_info.alert_down,
            !.alert_triggered_up = FALSE,
            !.alert_triggered_down = FALSE]

\* A blank SymbolState (lines 721-734 and 794-807).
BlankState(code) ==
    [last_price |-> None, last_time |-> None,
     last_stock_name |-> get_stock_name(code),
     last_update_time |-> None, last_change_pct |-> Frac(0, 1),
     holding_price |-> None, holding_quantity |-> 0, transactions |-> << >>,
     alert_up |-> None, alert_down |-> None,
     alert_triggered_up |-> FALSE, alert_triggered_down |-> FALSE]

NewState(stock_info) == HoldingFields(BlankState(stock_info.code), stock_info)

\* A reconciler that rebuilds the state of a symbol it already knows, as it
\* does for a new one, and so forgets the last sample.
MergeStateRebuilt(state, stock_info) == NewState(stock_info)

\* A reconciler that updates position and thresholds of a known symbol but
\* leaves its alert flags as they were.
MergeStateKeepsFlags(state, stock_info) ==
    [HoldingFields(state, stock_info) EXCEPT
        !.alert_triggered_up = state.alert_triggered_up,
        !.alert_triggered_down = state.alert_triggered_down]

\* The branch `if code in stock_states` of the reconciler (lines 781-791).
MergeState(state, stock_info) == HoldingFields(state, stock_info)

\* One turn of the loop `for code in new_stock_codes` (lines 768-807).
ReconcileOne(states, stock_info) ==
    LET code == stock_info.code
    IN  [c \in (DOMAIN states) \cup {code} |->
            IF c # code THEN states[c]
            ELSE IF code \in DOMAIN states THEN MergeState(states[code], stock_info)
                 ELSE NewState(stock_info)]

\* The loop over the first n configured symbols.
RECURSIVE ReconcileFirst(_, _, _)
ReconcileFirst(states, stocks, n) ==
    IF n = 0 THEN states
    ELSE ReconcileOne(ReconcileFirst(states, stocks, n - 1), stocks[n])

\* The index of the first configured symbol whose state cannot be built,
\* or Len(stocks) + 1.
FirstRaising(stocks) ==
    LET bad == {i \in 1..Len(stocks) : StockInfoRaises(stocks[i])}
    IN  IF bad = {} THEN Len(stocks) + 1
        ELSE CHOOSE i \in bad : \A j \in bad : i <= j

CodesOf(stocks) == [i \in 1..Len(stocks) |-> stocks[i].code]


\* ================================================================ state
VARIABLES
    \* ---- the engine (locals of listen_stocks)
    stock_states,          \* code -> SymbolState
    stock_codes,           \* the polled symbol list, in configuration order
    funds_config,          \* available_funds, total_original_funds
    privacy_mode,
    market_hours_config,
    config_file_mtime,     \* the remembered last-modified marker
    yesterday_close_cache, \* the in-memory close cache
    last_saved_date,
    last_request_age,      \* age of last_request_time, capped at MIN_REQUEST_INTERVAL
    initialized,
    stop_updating,         \* the local of the current cycle
    pc,                    \* where listen_stocks stands
    idx,                   \* position of the `for stock_code in stock_codes` loops
    \* ---- the world
    cfg,                   \* config/holdings.json: [mtime, content]
    files,                 \* history/<date>.json, by day number
    today, tod, weekday,   \* the calendar: day, minute of the day, weekday 1..7
    env,                   \* what the run is exposed to and what is observed (fixed by Init)
    \* ---- observations (never read by the engine)
    evals,                 \* alert evaluations: the last one, and the last polled prices
    calls,                 \* provider calls: spacing, failures, sleeps in between
    intr,                  \* interrupts delivered and final persists attempted
    roll                   \* rollover and per-cycle snapshot writes

engineVars == <<stock_states, stock_codes, funds_config, privacy_mode,
                market_hours_config, config_file_mtime, yesterday_close_cache,
                last_saved_date, last_request_age, initialized, stop_updating, pc, idx>>
worldVars == <<cfg, files, today, tod, weekday, env>>
obsVars == <<evals, calls, intr, roll>>
vars == <<engineVars, worldVars, obsVars>>

\* ------------------------------------------------------- time passing
\* d ticks pass: the age of every last_time grows.
AgeStates(states, d) ==
    [c \in DOMAIN states |->
        [states[c] EXCEPT !.last_time =
            IF IsNone(@) THEN @ ELSE Some(Min(ONE_SECOND, Val(@) + d))]]

AgeRequest(age, d) == Min(MIN_REQUEST_INTERVAL, age + d)

\* ------------------------------------------------ observing the provider
\* One provider call with the given status, lasting d ticks: the gap to the
\* start of the previous call, and the failure and handler sleep before it.
NoteCall(c, status, endpoint, d) ==
    [since |-> IF "gap" \in env.watch THEN Min(MIN_REQUEST_INTERVAL, d) ELSE c.since,
     gap |-> IF "gap" \in env.watch THEN Min(c.gap, c.since) ELSE c.gap,
     lastStatus |-> IF "ctx" \in env.watch THEN status ELSE c.lastStatus,
     slept |-> "none",
     ctx |-> IF "ctx" \in env.watch /\ c.lastStatus \in {"fail", "rate"}
             THEN c.ctx \cup {[after |-> c.lastStatus, slept |-> c.slept]} ELSE c.ctx,
     cycle |-> IF "cycle" \in env.watch THEN c.cycle \cup {endpoint} ELSE c.cycle]

RECURSIVE NoteEach(_, _, _, _)
NoteEach(c, statuses, endpoint, d) ==
    IF statuses = << >> THEN c
    ELSE NoteEach(NoteCall(c, Head(statuses), endpoint, d), Tail(statuses), endpoint, d)

\* The provider calls of one step: `gap` is the smallest gap before any of
\* them and `ctx` the failures and sleeps that came before each of them.
NoteCalls(c, statuses, endpoint, d) ==
    NoteEach([c EXCEPT !.gap = MIN_REQUEST_INTERVAL, !.ctx = {}], statuses, endpoint, d)

\* d ticks pass without a provider call; `kind` is "retry" or "backoff" for
\* the sleeps of the error handler and "none" for any other wait.
NoteWait(c, d, kind) ==
    [c EXCEPT !.since = IF "gap" \in env.watch THEN Min(MIN_REQUEST_INTERVAL, @ + d) ELSE @,
              !.slept = IF "ctx" \notin env.watch \/ kind = "none" \/ @ = "backoff"
                        THEN @ ELSE kind]

\* ------------------------------------------------------ one quote applied
\* The change percentage of a quote (lines 1082-1085 and 1153-1156).
ChangePct(current_price, yesterday_close) ==
    IF yesterday_close > 0
    THEN Frac((current_price - yesterday_close) * 100, yesterday_close)
    ELSE Frac(0, 1)

\* The price fields written from a quote (lines 1098-1102 and 1176-1180).
WriteQuote(state, q) ==
    [state EXCEPT !.last_price = Some(q.price),
                  !.last_time = Some(0),
                  !.last_stock_name = q.name,
                  !.last_update_time = Some(q.update_time),
                  !.last_change_pct = ChangePct(q.price, q.yesterday_close)]

\* A loop that records every successful quote.
should_update_every_poll(state, current_price) == TRUE

\* A throttle that looks at the sample clock only.
should_update_by_age(state, current_price) ==
    IsNone(state.last_time) \/ Val(state.last_time) >= ONE_SECOND

\* should_update (lines 1171-1173), read before the alert check.
should_update(state, current_price) ==
    \/ state.last_price # Some(current_price)
    \/ IsNone(state.last_time)
    \/ Val(state.last_time) >= ONE_SECOND

\* A failed quote that wipes the last known price of the symbol.
KeepStaleCleared(state) == [state EXCEPT !.last_price = None]

\* A failed quote in the polling loop (lines 1181-1185): the state is left
\* as it is.
KeepStale(state) == state

\* A loop that evaluates the alerts of a quote and records no sample.
ApplyPollChecksOnly(state, q) == check_price_alert(state, q.price).state

\* A successful quote in the polling loop (lines 1147-1180).
ApplyPoll(state, q) ==
    LET checked == check_price_alert(state, q.price).state
    IN  IF should_update(state, q.price) THEN WriteQuote(checked, q) ELSE checked

\* A successful quote in the start-up pass (lines 1079-1103).
ApplyStartup(state, q) == WriteQuote(check_price_alert(state, q.price).state, q)

\* The alert evaluation of a quote, as observed: the price, the price of
\* the previous successful poll of the symbol, what fired, and the age of
\* the last recorded sample when the quote came back.
Evaluation(e, code, state, q) ==
    [e EXCEPT
        !.last = Some([code |-> code, price |-> q.price, prev |-> e.polled[code],
                       up |-> check_price_alert(state, q.price).triggered_up,
                       down |-> check_price_alert(state, q.price).triggered_down,
                       alert_up |-> state.alert_up, alert_down |-> state.alert_down,
                       rearmed |-> e.rearmed[code],
                       age |-> IF "age" \in env.watch THEN state.last_time ELSE None]),
        !.polled = [@ EXCEPT ![code] = Some(q.price)]]

\* No provider call was made.
NoCall == Outcome("skip", 1, "skip", None, "skip", 1, None, "ok")

\* One turn of a quote loop, as observed: how it ended ("ok", "failed" or
\* "skipped" by the trading-hours gate), the symbols asked for in the
\* cycle, the previous close it cached and wrote back, what the provider
\* answered and what the quote came to, and the day on which the close it
\* took from the memory cache had been cached, with the date the loop had
\* last seen.
NotePoll(e, code, outcome, before, after, o, result, day) ==
    LET cached == HasKey(after, code) /\ ~HasKey(before, code)
    IN  [e EXCEPT
          !.outcome = IF "poll" \in env.watch THEN outcome ELSE @,
          !.quoted = IF "poll" \in env.watch /\ outcome # "skipped"
                     THEN @ \cup {code} ELSE @,
          !.rearmed = IF outcome = "ok" THEN [@ EXCEPT ![code] = FALSE] ELSE @,
          !.wrote = IF "poll" \notin env.watch THEN @
                    ELSE IF cached
                    THEN Some([code |-> code, close |-> after[code],
                               date |-> day - 1, w |-> o.w])
                    ELSE None,
          !.asked = IF "store" \in env.watch
                    THEN Some([code |-> code, o |-> o, result |-> result]) ELSE @,
          !.used = IF "scope" \notin env.watch \/ outcome # "ok" THEN @
                   ELSE IF HasKey(before, code)
                   THEN Some([cached |-> e.cachedOn[code], at |-> day,
                              seen |-> last_saved_date])
                   ELSE None,
          !.cachedOn = IF "scope" \in env.watch /\ cached
                       THEN [@ EXCEPT ![code] = Some(day)] ELSE @]


\* ------------------------------------------------ observing the snapshots
\* What a snapshot is built from: the state store without the sample
\* clocks, the funds and the close cache.
ViewOf(states, funds, cache) ==
    [states |-> [c \in DOMAIN states |-> [states[c] EXCEPT !.last_time = None]],
     funds |-> funds, cache |-> cache]

View(states, funds, cache) ==
    IF "roll" \notin env.watch THEN EmptyMap ELSE ViewOf(states, funds, cache)

\* The outcome of the storage write of the latest snapshot persist ("none"
\* when the step wrote no snapshot).
NoteWrite(r, w) ==
    [r EXCEPT !.w = IF {"persist", "store"} \cap env.watch # {} THEN w ELSE @]

\* A per-cycle persist of today's snapshot: that the cycle persisted, and
\* the last two persists with what they were built from and what they
\* left in the file.
NotePersist(r, date, fs, states, funds, cache, bars, w) ==
    LET this == [states |-> states, funds |-> funds, cache |-> cache,
                 bars |-> bars, date |-> date,
                 w |-> IF SnapshotRaises(funds) THEN "raised" ELSE w, file |-> fs[date]]
    IN  [NoteWrite(r, w) EXCEPT
            !.saved = IF "cycle" \in env.watch THEN TRUE ELSE @,
            !.two = IF "persist" \notin env.watch THEN @
                    ELSE IF @ = << >> THEN <<this>> ELSE <<@[Len(@)], this>>]

\* A write made at the detection of a date change.
NoteRollover(r, date, fs, states, funds, cache, bars, stamp, w) ==
    [r EXCEPT
        !.count = IF {"roll", "count"} \cap env.watch # {}
                  THEN [@ EXCEPT ![date] = @ + 1] ELSE @,
        !.last = IF "roll" \in env.watch
                 THEN Some([date |-> date, used |-> View(states, funds, cache),
                            before |-> r.atMidnight])
                 ELSE @,
        !.rolled = IF "rolled" \in env.watch /\ w = "ok" /\ ~SnapshotRaises(funds)
                   THEN [@ EXCEPT ![date] = Some(fs[date])] ELSE @,
        !.w = IF {"persist", "store"} \cap env.watch # {} THEN w ELSE @]

\* ================================================================= Init
Market(days, morning, afternoon) ==
    [enabled |-> TRUE, weekdays |-> days, morning |-> morning, afternoon |-> afternoon]
Window(start, end) == Some([start |-> start, end |-> end])

StockInfo(code, transactions, alert_up, alert_down) ==
    [code |-> code, transactions |-> transactions,
     alert_up |-> alert_up, alert_down |-> alert_down]
Trans(quantity, price) == [quantity |-> quantity, price |-> price]

Content(funds, stocks, markets) ==
    [parses |-> TRUE, funds |-> funds, stocks |-> stocks,
     privacy_mode |-> FALSE, market_hours |-> markets]
Funds(available, original) ==
    [available_funds |-> available, total_original_funds |-> original]

\* A file json.load cannot parse.
Unparseable ==
    [parses |-> FALSE, funds |-> Funds(0, 0), stocks |-> << >>,
     privacy_mode |-> FALSE, market_hours |-> NoMarkets]

AllFiles(file) == [d \in 0..MaxDate |-> file]

\* The state listen_stocks builds before its start-up pass (lines 675-734
\* and 824-826) from the configuration file, the files of history/ and the
\* clock; e is the exposure of the run to faults.
InitWith(content, fs, e, day, minute, dayOfWeek) ==
    LET config == load_holdings_config(content)
    IN  /\ stock_states = ReconcileFirst(EmptyMap, config.stocks, Len(config.stocks))
        /\ stock_codes = CodesOf(config.stocks)
        /\ funds_config = config.funds
        /\ privacy_mode = config.privacy_mode
        /\ market_hours_config = config.market_hours
        /\ config_file_mtime = 0
        /\ yesterday_close_cache = load_yesterday_close_cache(fs[day - 1])
        /\ last_saved_date = None
        /\ last_request_age = MIN_REQUEST_INTERVAL
        /\ initialized = FALSE
        /\ stop_updating = FALSE
        /\ pc = IF Len(config.stocks) = 0 THEN "returned" ELSE "startup"
        /\ idx = 1
        /\ cfg = [mtime |-> 0, content |-> content]
        /\ files = fs
        /\ today = day
        /\ tod = minute
        /\ weekday = dayOfWeek
        /\ env = e
        /\ evals = [last |-> None, polled |-> [c \in Codes |-> None],
                    fresh |-> [c \in Codes |-> TRUE],
                    rearmed |-> [c \in Codes |-> FALSE],
                    outcome |-> "none", quoted |-> {}, wrote |-> None, used |-> None,
                    asked |-> None, seen |-> 0,
                    cachedOn |-> [c \in Codes |->
                        IF "scope" \in e.watch
                           /\ HasKey(load_yesterday_close_cache(fs[day - 1]), c)
                        THEN Some(day) ELSE None]]
        /\ calls = [since |-> MIN_REQUEST_INTERVAL, gap |-> MIN_REQUEST_INTERVAL,
                    lastStatus |-> "none", slept |-> "none", ctx |-> {}, cycle |-> {}]
        /\ intr = [delivered |-> FALSE, absorbed |-> FALSE, finalSave |-> FALSE]
        /\ roll = [cycleEnd |-> EmptyMap,
                   atMidnight |-> EmptyMap,
                   count |-> [d \in 0..MaxDate |-> 0],
                   last |-> None,
                   rolled |-> [d \in 0..MaxDate |-> None],
                   target |-> None,
                   saved |-> TRUE, w |-> "none", two |-> << >>, aborted |-> {}]


\* ============================================================== actions
\* The outcomes of one quote lookup the run is exposed to.
ExposedQuotes(stock_code) ==
    {o \in QuoteOutcomes(stock_code, yesterday_close_cache, files, today,
                          env.writes, env.closes) :
        {o.q, o.sq, o.q2} \subseteq {"ok", "skip"} \cup env.failures}

\* The daily bars one save_yesterday_history may be given.
ExposedBars == [PricedCodes(stock_states) -> env.bars]

\* A KeyboardInterrupt raised inside a provider call was swallowed there.
NoteAbsorbed(i, statuses) ==
    IF "intr" \in Range(statuses)
    THEN [i EXCEPT !.delivered = TRUE, !.absorbed = TRUE] ELSE i

\* One turn of the start-up pass (lines 1077-1107): the quote of a symbol,
\* whatever the trading hours, then the delay before the next symbol.
\* A start-up pass that counts a symbol as obtained whatever its quote
\* came to.
InitializedAfterAny(was, result) == TRUE

\* Line 1103: `initialized = True` sits under `if result`.
InitializedAfter(was, result) == was \/ ~IsNone(result)

StartupQuote ==
    /\ pc = "startup"
    /\ LET stock_code == stock_codes[idx]
           isLast     == idx = Len(stock_codes)
           pause      == IF isLast THEN 0 ELSE SYMBOL_DELAY
       IN  \E o \in ExposedQuotes(stock_code), d \in 0..MaxCallTicks :
             LET statuses == QuoteCalls(stock_code, yesterday_close_cache, files, today, o)
                 got      == get_realtime_price(stock_code, yesterday_close_cache,
                                                files, today, tod, o)
                 elapsed  == d * Len(statuses)
                 aged     == AgeStates(stock_states, elapsed)
                 applied  == IF IsNone(got.result) THEN aged
                             ELSE [aged EXCEPT ![stock_code] =
                                      ApplyStartup(@, Val(got.result))]
             IN  /\ stock_states' = AgeStates(applied, pause)
                 /\ yesterday_close_cache' = got.cache
                 /\ files' = got.fs
                 /\ initialized' = InitializedAfter(initialized, got.result)
                 /\ evals' = NotePoll(IF IsNone(got.result) THEN evals
                                       ELSE Evaluation(evals, stock_code, aged[stock_code],
                                                       Val(got.result)),
                                       stock_code,
                                       IF IsNone(got.result) THEN "failed" ELSE "ok",
                                       yesterday_close_cache, got.cache, o, got.result,
                                       today)
                 /\ calls' = NoteWait(NoteCalls(calls, statuses, "quote", d), pause, "none")
                 /\ pc' = IF isLast THEN "enter" ELSE "startup"
                 /\ idx' = IF isLast THEN 1 ELSE idx + 1
    /\ UNCHANGED <<stock_codes, funds_config, privacy_mode, market_hours_config,
                   config_file_mtime, last_saved_date, last_request_age,
                   stop_updating, cfg, today, tod, weekday, env, intr, roll>>

\* Lines 1109-1122: leave when no quote was obtained, else note the date
\* and build the first display, whose error ends the program after one
\* persist (lines 1230-1234).
EnterLoop ==
    /\ pc = "enter"
    /\ IF ~initialized
       THEN /\ pc' = "returned"
            /\ UNCHANGED <<last_saved_date, files, calls, roll>>
       ELSE /\ last_saved_date' = Some(today)
            /\ IF DisplayRaises(funds_config)
               THEN \E bars \in ExposedBars, w \in env.writes :
                      /\ files' = save_yesterday_history(files, stock_states, funds_config,
                                      yesterday_close_cache, today, bars, <<today, tod>>, w)
                      /\ calls' = NoteCalls(calls, BarCalls(stock_states, bars), "daily", 0)
                      /\ pc' = "crashed"
                      /\ UNCHANGED roll
               ELSE /\ pc' = "cycle"
                    /\ roll' = [roll EXCEPT
                           !.cycleEnd = View(stock_states, funds_config,
                                             yesterday_close_cache),
                           !.atMidnight = View(stock_states, funds_config,
                                               yesterday_close_cache)]
                    /\ UNCHANGED <<files, calls>>
    /\ UNCHANGED <<stock_states, stock_codes, funds_config, privacy_mode,
                   market_hours_config, config_file_mtime, yesterday_close_cache,
                   last_request_age, initialized, stop_updating, idx,
                   cfg, today, tod, weekday, env, evals, intr>>

\* Lines 1126-1130: a cycle starts by reading the clock against the cutoff.
CycleStart ==
    /\ pc = "cycle"
    /\ stop_updating' = should_stop_updating(tod)
    /\ pc' = IF ~should_stop_updating(tod) /\ Len(stock_codes) > 0 THEN "poll" ELSE "display"
    /\ idx' = 1
    /\ calls' = [calls EXCEPT !.cycle = {}]
    /\ evals' = [evals EXCEPT !.quoted = {}]
    /\ roll' = [roll EXCEPT !.saved = IF "cycle" \in env.watch THEN FALSE ELSE @]
    /\ UNCHANGED <<stock_states, stock_codes, funds_config, privacy_mode,
                   market_hours_config, config_file_mtime, yesterday_close_cache,
                   last_saved_date, last_request_age, initialized,
                   worldVars, intr>>

\* The pacing sleep before a quote (lines 1137-1141), for a jitter.
PacingSleep(age, jitter) ==
    IF age < MIN_REQUEST_INTERVAL THEN MIN_REQUEST_INTERVAL - age + jitter ELSE 0

\* One turn of `for stock_code in stock_codes` (lines 1130-1189): the
\* trading-hours gate, the pacing sleep, the quote, the alert check and the
\* throttled update, then the delay before the next symbol.
PollSymbol ==
    /\ pc = "poll"
    /\ LET stock_code == stock_codes[idx]
           isLast     == idx = Len(stock_codes)
           pause      == IF isLast THEN 0 ELSE SYMBOL_DELAY
       IN  /\ IF ~is_trading_time(stock_code, market_hours_config, weekday, tod)
              THEN /\ evals' = NotePoll(evals, stock_code, "skipped",
                                         yesterday_close_cache, yesterday_close_cache,
                                         NoCall, None, today)
                   /\ UNCHANGED <<stock_states, yesterday_close_cache, files,
                                  last_request_age, calls, intr>>
              ELSE \E o \in ExposedQuotes(stock_code), d \in 0..MaxCallTicks,
                      jitter \in 0..MAX_RANDOM_DELAY :
                     LET wait     == PacingSleep(last_request_age, jitter)
                         statuses == QuoteCalls(stock_code, yesterday_close_cache,
                                                files, today, o)
                         got      == get_realtime_price(stock_code, yesterday_close_cache,
                                                        files, today, tod, o)
                         elapsed  == d * Len(statuses)
                         aged     == AgeStates(stock_states, wait + elapsed)
                         applied  == IF IsNone(got.result)
                                     THEN [aged EXCEPT ![stock_code] = KeepStale(@)]
                                     ELSE [aged EXCEPT ![stock_code] =
                                              ApplyPoll(@, Val(got.result))]
                     IN  /\ stock_states' = AgeStates(applied, pause)
                         /\ yesterday_close_cache' = got.cache
                         /\ files' = got.fs
                         /\ last_request_age' = AgeRequest(0, elapsed + pause)
                         /\ evals' = NotePoll(IF IsNone(got.result) THEN evals
                                               ELSE Evaluation(evals, stock_code,
                                                        aged[stock_code], Val(got.result)),
                                               stock_code,
                                               IF IsNone(got.result) THEN "failed" ELSE "ok",
                                               yesterday_close_cache, got.cache, o, got.result,
                                       today)
                         /\ calls' = NoteWait(NoteCalls(NoteWait(calls, wait, "none"),
                                                        statuses, "quote", d),
                                              pause, "none")
                         /\ intr' = NoteAbsorbed(intr, statuses)
           /\ pc' = IF isLast THEN "display" ELSE "poll"
           /\ idx' = IF isLast THEN 1 ELSE idx + 1
    /\ UNCHANGED <<stock_codes, funds_config, privacy_mode, market_hours_config,
                   config_file_mtime, last_saved_date, initialized, stop_updating,
                   cfg, today, tod, weekday, env, roll>>

\* live.update(generate_display()) (line 1193): an error it raises is
\* caught by `except Exception` (lines 1223-1229); its text names no rate
\* limit.
Display ==
    /\ pc = "display"
    /\ pc' = IF DisplayRaises(funds_config) THEN "retry" ELSE "reload"
    /\ roll' = IF DisplayRaises(funds_config)
               THEN [roll EXCEPT !.cycleEnd = View(stock_states, funds_config,
                                                   yesterday_close_cache)]
               ELSE roll
    /\ UNCHANGED <<stock_states, stock_codes, funds_config, privacy_mode,
                   market_hours_config, config_file_mtime, yesterday_close_cache,
                   last_saved_date, last_request_age, initialized, stop_updating, idx,
                   worldVars, evals, calls, intr>>


\* A reconciler with the commented-out removal of lines 812-814 switched on:
\* the state of a symbol that left the configuration is deleted.
ReconciledDropsRemoved(states, codes, mtime, file) ==
    LET config == load_holdings_config(file.content)
        kept   == {config.stocks[i].code : i \in 1..Len(config.stocks)}
        merged == ReconcileFirst(states, config.stocks, Len(config.stocks))
    IN  [stock_states |-> [c \in kept |-> merged[c]],
         funds_config |-> config.funds,
         privacy_mode |-> config.privacy_mode,
         market_hours_config |-> config.market_hours,
         stock_codes |-> CodesOf(config.stocks),
         config_file_mtime |-> file.mtime,
         merged |-> kept]

\* A reconciler that switches to the new symbol list before it merges the
\* symbols.
ReconciledSwitchesFirst(states, codes, mtime, file) ==
    LET config == load_holdings_config(file.content)
        bad    == FirstRaising(config.stocks)
        done   == bad > Len(config.stocks)
    IN  [stock_states |-> ReconcileFirst(states, config.stocks, bad - 1),
         funds_config |-> config.funds,
         privacy_mode |-> config.privacy_mode,
         market_hours_config |-> config.market_hours,
         stock_codes |-> CodesOf(config.stocks),
         config_file_mtime |-> IF done THEN file.mtime ELSE mtime,
         merged |-> {config.stocks[i].code : i \in 1..(bad - 1)}]

\* reload_config_if_changed (lines 736-822) for a file newer than the
\* remembered marker: the engine state it leaves.  The configuration
\* values are assigned before the loop over the symbols; an error raised
\* in that loop is caught after the symbols before it were merged, and
\* leaves stock_codes and config_file_mtime as they were.
Reconciled(states, codes, mtime, file) ==
    LET config == load_holdings_config(file.content)
        bad    == FirstRaising(config.stocks)
        done   == bad > Len(config.stocks)
    IN  [stock_states |-> ReconcileFirst(states, config.stocks, bad - 1),
         funds_config |-> config.funds,
         privacy_mode |-> config.privacy_mode,
         market_hours_config |-> config.market_hours,
         stock_codes |-> IF done THEN CodesOf(config.stocks) ELSE codes,
         config_file_mtime |-> IF done THEN file.mtime ELSE mtime,
         merged |-> {config.stocks[i].code : i \in 1..(bad - 1)}]

\* The last-modified marker of the file the reconciliation step of this
\* cycle has looked at.
NoteSeen(e, mtime) == [e EXCEPT !.seen = IF "seen" \in env.watch THEN mtime ELSE @]

\* Line 1196: the reconciliation step of a cycle.
Reload ==
    /\ pc = "reload"
    /\ IF cfg.mtime <= config_file_mtime
       THEN /\ evals' = NoteSeen(evals, cfg.mtime)
            /\ UNCHANGED <<stock_states, stock_codes, funds_config, privacy_mode,
                           market_hours_config, config_file_mtime>>
       ELSE LET r == Reconciled(stock_states, stock_codes, config_file_mtime, cfg)
            IN  /\ stock_states' = r.stock_states
                /\ stock_codes' = r.stock_codes
                /\ funds_config' = r.funds_config
                /\ privacy_mode' = r.privacy_mode
                /\ market_hours_config' = r.market_hours_config
                /\ config_file_mtime' = r.config_file_mtime
                /\ evals' = [NoteSeen(evals, cfg.mtime) EXCEPT
                               !.fresh = [c \in Codes |-> @[c] /\ c \notin r.merged],
                               !.rearmed = IF "poll" \notin env.watch THEN @
                                           ELSE [c \in Codes |-> @[c] \/ c \in r.merged]]
    /\ pc' = "datecheck"
    /\ UNCHANGED <<yesterday_close_cache, last_saved_date, last_request_age,
                   initialized, stop_updating, idx, worldVars, calls, intr, roll>>

\* Lines 1198-1203: the date check, and the snapshot of the remembered date
\* when the date has changed.
DateCheck ==
    /\ pc = "datecheck"
    /\ IF ~IsNone(last_saved_date) /\ Val(last_saved_date) # today
       THEN \E bars \in ExposedBars, w \in env.writes :
              LET date == Val(last_saved_date)
                  fs   == save_yesterday_history(files, stock_states, funds_config,
                              yesterday_close_cache, date, bars, <<today, tod>>, w)
              IN  /\ files' = fs
                  /\ calls' = NoteCalls(calls, BarCalls(stock_states, bars), "daily", 0)
                  /\ intr' = NoteAbsorbed(intr, BarCalls(stock_states, bars))
                  /\ roll' = NoteRollover(roll, date, fs, stock_states, funds_config,
                                 yesterday_close_cache, bars, <<today, tod>>, w)
       ELSE /\ roll' = NoteWrite(roll, "none")
            /\ UNCHANGED <<files, calls, intr>>
    /\ last_saved_date' = Some(today)
    /\ pc' = "savetoday"
    /\ UNCHANGED <<stock_states, stock_codes, funds_config, privacy_mode,
                   market_hours_config, config_file_mtime, yesterday_close_cache,
                   last_request_age, initialized, stop_updating, idx,
                   cfg, today, tod, weekday, env, evals>>

\* Lines 1205-1207: the snapshot of the current date, every cycle.
SaveToday ==
    /\ pc = "savetoday"
    /\ \E bars \in ExposedBars, w \in env.writes :
         LET fs     == save_yesterday_history(files, stock_states, funds_config,
                           yesterday_close_cache, today, bars, <<today, tod>>, w)
             noted  == NotePersist(roll, today, fs, stock_states, funds_config,
                                   yesterday_close_cache, bars, w)
         IN  /\ files' = fs
             /\ calls' = NoteCalls(calls, BarCalls(stock_states, bars), "daily", 0)
             /\ intr' = NoteAbsorbed(intr, BarCalls(stock_states, bars))
             /\ roll' = IF "roll" \notin env.watch THEN noted
                        ELSE [noted EXCEPT !.target = Some(today),
                                           !.cycleEnd = View(stock_states, funds_config,
                                                             yesterday_close_cache)]
    /\ pc' = "sleep"
    /\ UNCHANGED <<stock_states, stock_codes, funds_config, privacy_mode,
                   market_hours_config, config_file_mtime, yesterday_close_cache,
                   last_saved_date, last_request_age, initialized, stop_updating, idx,
                   cfg, today, tod, weekday, env, evals>>

\* Lines 1214-1216: the sleep that ends a cycle.
CycleSleep ==
    /\ pc = "sleep"
    /\ \E jitter \in 0..MAX_RANDOM_DELAY :
         /\ stock_states' = AgeStates(stock_states, POLL_INTERVAL + jitter)
         /\ last_request_age' = AgeRequest(last_request_age, POLL_INTERVAL + jitter)
         /\ calls' = NoteWait(calls, POLL_INTERVAL + jitter, "none")
    /\ pc' = "cycle"
    /\ UNCHANGED <<stock_codes, funds_config, privacy_mode, market_hours_config,
                   config_file_mtime, yesterday_close_cache, last_saved_date,
                   initialized, stop_updating, idx, worldVars, evals, intr, roll>>

\* An error text, as the markers the handler looks for in it.
ErrorText(has429, hasRateLimit, hasXianliu) ==
    [has429 |-> has429, hasRateLimit |-> hasRateLimit, hasXianliu |-> hasXianliu]

\* str(e) of the TypeError of generate_display.
DisplayErrorText == ErrorText(FALSE, FALSE, FALSE)

\* Lines 1224-1229: the sleep of the error handler for an error text.
HandlerSleep(error_msg) ==
    IF error_msg.has429 \/ error_msg.hasRateLimit \/ error_msg.hasXianliu
    THEN RETRY_DELAY * 2 ELSE RETRY_DELAY

\* A handler that re-raises after its sleep, as the outer handler of
\* listen_stocks does (line 1234).
HandlerNextReraises(error_msg) == "crashed"

\* Where the handler of lines 1223-1229 leaves the loop: it neither breaks
\* nor raises, so `while True` starts the next cycle.
HandlerNext(error_msg) == "cycle"

\* A handler that takes the date of the aborted cycle for the remembered
\* one.
RememberedAfterAbortAdvances(last_saved, day) == Some(day)

\* The remembered date after the handler of lines 1223-1229, which does
\* not assign last_saved_date.
RememberedAfterAbort(last_saved, day) == last_saved

\* The error handler of the loop, entered with the TypeError of the display
\* or the OSError of the reconciliation step; neither text names a rate
\* limit.
RetrySleep ==
    /\ pc = "retry"
    /\ LET d == HandlerSleep(DisplayErrorText)
       IN  /\ stock_states' = AgeStates(stock_states, d)
           /\ last_request_age' = AgeRequest(last_request_age, d)
           /\ calls' = NoteWait(calls, d, IF d = RETRY_DELAY THEN "retry" ELSE "backoff")
    /\ pc' = HandlerNext(DisplayErrorText)
    /\ last_saved_date' = RememberedAfterAbort(last_saved_date, today)
    /\ UNCHANGED <<stock_codes, funds_config, privacy_mode, market_hours_config,
                   config_file_mtime, yesterday_close_cache,
                   initialized, stop_updating, idx, worldVars, evals, intr, roll>>

\* Lines 741-744: os.path.getmtime sits outside the `try` of
\* reload_config_if_changed, so an OSError of it (the file went away after
\* os.path.exists) aborts the cycle before the date check.
ReloadRaises ==
    /\ pc = "reload"
    /\ pc' = "retry"
    /\ roll' = [roll EXCEPT !.aborted = @ \cup {today},
                            !.cycleEnd = View(stock_states, funds_config,
                                              yesterday_close_cache)]
    /\ UNCHANGED <<stock_states, stock_codes, funds_config, privacy_mode,
                   market_hours_config, config_file_mtime, yesterday_close_cache,
                   last_saved_date, last_request_age, initialized, stop_updating, idx,
                   worldVars, evals, calls, intr>>

\* The places of the loop body outside a provider call.
InLoopBody == pc \in {"cycle", "poll", "display", "reload", "datecheck", "savetoday", "sleep"}

\* A KeyboardInterrupt raised in the loop body outside a provider call
\* (a sleep, a file access, the display): `except KeyboardInterrupt`
\* persists today's snapshot and breaks (lines 1218-1222).
Interrupt ==
    /\ InLoopBody
    /\ \E bars \in ExposedBars, w \in env.writes :
         /\ files' = save_yesterday_history(files, stock_states, funds_config,
                         yesterday_close_cache, today, bars, <<today, tod>>, w)
         /\ calls' = NoteCalls(calls, BarCalls(stock_states, bars), "daily", 0)
    /\ intr' = [intr EXCEPT !.delivered = TRUE, !.finalSave = TRUE]
    /\ pc' = "exited"
    /\ UNCHANGED <<stock_states, stock_codes, funds_config, privacy_mode,
                   market_hours_config, config_file_mtime, yesterday_close_cache,
                   last_saved_date, last_request_age, initialized, stop_updating, idx,
                   cfg, today, tod, weekday, env, evals, roll>>

\* A KeyboardInterrupt raised while the error handler sleeps (lines
\* 1227 and 1229): no clause of the inner try catches an exception raised
\* in one of its handlers, and the outer `except Exception` (line 1230)
\* does not catch KeyboardInterrupt, so it leaves listen_stocks at once.
InterruptRetry ==
    /\ pc = "retry"
    /\ intr' = [intr EXCEPT !.delivered = TRUE]
    /\ pc' = "aborted"
    /\ UNCHANGED <<stock_states, stock_codes, funds_config, privacy_mode,
                   market_hours_config, config_file_mtime, yesterday_close_cache,
                   last_saved_date, last_request_age, initialized, stop_updating, idx,
                   worldVars, evals, calls, roll>>

\* ------------------------------------------------------------ the world
Running == pc \in {"startup", "enter", "retry"} \/ InLoopBody

\* Midnight passes.
Midnight ==
    /\ Running
    /\ today < MaxDate
    /\ today' = today + 1
    /\ tod' = 0
    /\ weekday' = (weekday % 7) + 1
    /\ roll' = [roll EXCEPT !.atMidnight = roll.cycleEnd]
    /\ UNCHANGED <<engineVars, cfg, files, env, evals, calls, intr>>

\* The time of day moves on to a later one of the times the run visits.
Tick ==
    /\ Running
    /\ \E t \in env.times : t > tod /\ tod' = t
    /\ UNCHANGED <<engineVars, cfg, files, today, weekday, env, obsVars>>

\* The user saves the configuration file.
EditConfig ==
    /\ Running
    /\ cfg.mtime < MaxEdits
    /\ \E content \in env.configs :
         cfg' = [mtime |-> cfg.mtime + 1, content |-> content]
    /\ UNCHANGED <<engineVars, files, today, tod, weekday, env, obsVars>>


\* ======================================================= specifications
\* Times of day a run may visit, in minutes: 10:00 and the cutoff 15:01.
Morning == 10 * 60
Cutoff == STOP_UPDATE_HOUR * 60 + STOP_UPDATE_MINUTE

Exposure(failures, writes, bars, closes, times, configs, watch) ==
    [failures |-> failures, writes |-> writes, bars |-> bars, closes |-> closes,
     times |-> times, configs |-> configs, watch |-> watch]

OneStock(alert_up, alert_down) ==
    Content(Funds(5, 10), <<StockInfo(ACode, <<Trans(2, 1)>>, alert_up, alert_down)>>,
            NoMarkets)

\* The US market trades every day from 22:30 to 05:00, the A-share market
\* from 09:30 to 11:30 and from 13:00 to 15:00.
NightMarket == Market(1..7, Window(1350, 300), None)
DayMarket == Market(1..7, Window(570, 690), Window(780, 900))

TwoStocks ==
    Content(Funds(5, 10), <<StockInfo(ACode, <<Trans(2, 1)>>, None, None),
                            StockInfo(UCode, << >>, None, None)>>,
            [a |-> DayMarket, us |-> NightMarket])

\* ---- the alert detector under polling: one symbol, quotes that may fail,
\* no edit of the configuration.
AlertChoices == {<<Some(2), None>>, <<None, Some(1)>>, <<Some(2), Some(1)>>}

InitAlert ==
    \E a \in AlertChoices :
        InitWith(OneStock(a[1], a[2]), AllFiles(NoFile),
                 Exposure({"fail"}, {"ok"}, {NoBar}, {2}, {}, {}, {}), 1, Morning, 1)

NextAlert ==
    \/ StartupQuote \/ EnterLoop \/ CycleStart \/ PollSymbol \/ Display
    \/ Reload \/ DateCheck \/ SaveToday \/ CycleSleep

SpecAlert == InitAlert /\ [][NextAlert]_vars

\* C1: for a symbol whose state no reconciliation has touched, the up alert
\* fires on a successful poll exactly when the price is at or above alertUp
\* and the previous polled price was below it or there was none, and the
\* down alert exactly when the price is at or below alertDown and the
\* previous polled price was above it or there was none.
C1_AlertOnCrossing ==
    ~IsNone(evals.last) /\ evals.fresh[Val(evals.last).code] =>
        LET e == Val(evals.last)
        IN  /\ ~IsNone(e.alert_up) =>
                (e.up <=> /\ e.price >= Val(e.alert_up)
                          /\ (IsNone(e.prev) \/ Val(e.prev) < Val(e.alert_up)))
            /\ ~IsNone(e.alert_down) =>
                (e.down <=> /\ e.price <= Val(e.alert_down)
                            /\ (IsNone(e.prev) \/ Val(e.prev) > Val(e.alert_down)))

\* The up alert fired on a poll that crossed alertUp from below.
C1_Witness ==
    /\ ~IsNone(evals.last)
    /\ Val(evals.last).up
    /\ Val(evals.last).alert_up = Some(2)
    /\ Val(evals.last).prev = Some(1)
    /\ pc \in {"poll", "display"}


\* ---- the loop under faults: provider failures of every kind, interrupts,
\* the cutoff, and a configuration edit that makes the display raise.
BadFunds ==
    Content(Funds(NotANumber, 10), <<StockInfo(ACode, <<Trans(2, 1)>>, Some(2), Some(1))>>,
            NoMarkets)

InitLoop ==
    InitWith(OneStock(Some(2), Some(1)), AllFiles(NoFile),
             Exposure({"fail", "intr"}, {"ok"}, {NoBar}, {2}, {}, {BadFunds}, {"ctx"}),
             1, Morning, 1)

NextLoop ==
    \/ StartupQuote \/ EnterLoop \/ CycleStart \/ PollSymbol \/ Display
    \/ Reload \/ DateCheck \/ SaveToday \/ CycleSleep \/ RetrySleep
    \/ Interrupt \/ InterruptRetry \/ EditConfig

SpecLoop == InitLoop /\ [][NextLoop]_vars

\* ---- the provider calls of the loop: failures with and without a
\* rate-limit text, the cutoff passing, and the display raising after an
\* edit of the configuration.
\* A configuration whose total_original_funds is no number: the display
\* raises on it, the snapshot persist does not.
BadOriginal ==
    Content(Funds(5, NotANumber), <<StockInfo(ACode, <<Trans(2, 1)>>, None, None)>>,
            NoMarkets)

InitCalls ==
    InitWith(OneStock(None, None), AllFiles(NoFile),
             Exposure({"fail", "rate"}, {"ok"}, {NoBar}, {2}, {Cutoff}, {BadOriginal},
                      {"gap", "ctx", "cycle"}),
             1, Morning, 1)

NextCalls ==
    \/ StartupQuote \/ EnterLoop \/ CycleStart \/ PollSymbol \/ Display
    \/ Reload \/ DateCheck \/ SaveToday \/ CycleSleep \/ RetrySleep
    \/ Tick \/ EditConfig

SpecCalls == InitCalls /\ [][NextCalls]_vars

\* C2: an interrupt delivered while the loop runs ends the loop.
C2_InterruptEndsLoop ==
    intr.delivered => pc \in {"exited", "aborted"}

\* C3: when an interrupt has ended the loop, a snapshot persist was
\* attempted after the interrupt.
C3_FinalPersist ==
    pc \in {"exited", "aborted"} => intr.finalSave

\* C7: any two consecutive provider calls are at least
\* MIN_REQUEST_INTERVAL apart.
C7_MinSpacing ==
    calls.gap >= MIN_REQUEST_INTERVAL

\* C8: a cycle that started at or after the cutoff makes no provider call.
C8_NoCallAfterCutoff ==
    InLoopBody /\ pc # "cycle" /\ stop_updating => calls.cycle = {}

\* C9: the provider call that follows a failed one comes after the long
\* backoff sleep when the failure carried a rate-limit text, and after the
\* short retry sleep when it was any other failure.
C9_BackoffAfterFailure ==
    \A x \in calls.ctx :
        /\ x.after = "rate" => x.slept = "backoff"
        /\ x.after = "fail" => x.slept = "retry"

\* ---- the date rollover: two symbols, midnight passing at any point.
InitRollover ==
    InitWith(OneStock(None, None), AllFiles(NoFile),
             Exposure({"fail"}, {"ok"}, {NoBar}, {2}, {}, {}, {"roll"}),
             1, Morning, 1)

NextRollover ==
    \/ StartupQuote \/ EnterLoop \/ CycleStart \/ PollSymbol \/ Display
    \/ Reload \/ DateCheck \/ SaveToday \/ CycleSleep \/ Midnight

SpecRollover == InitRollover /\ [][NextRollover]_vars

\* C4: the write made when the date change from D is detected is the only
\* one for D, it is built from the state store as it stood at the end of
\* the last cycle before the date changed, and the per-cycle writes that
\* follow target a later date.
C4_RolloverUsesPriorState ==
    ~IsNone(roll.last) =>
        LET r == Val(roll.last)
        IN  /\ roll.count[r.date] = 1
            /\ r.used = r.before
            /\ (pc = "sleep" => Val(roll.target) > r.date)

\* ---- the files of history/ across a date rollover: an A-share polled by
\* day and a US ticker polled by night.
InitFiles ==
    InitWith(TwoStocks, AllFiles(NoFile),
             Exposure({"fail"}, {"ok"}, {NoBar}, {2}, {}, {}, {"rolled"}),
             1, Morning, 1)

SpecFiles == InitFiles /\ [][NextRollover]_vars

\* C5: the file of a date whose snapshot was written at rollover stays as
\* it was written.
C5_RolledFileKept ==
    \A d \in 0..MaxDate :
        ~IsNone(roll.rolled[d]) => files[d] = Val(roll.rolled[d])

\* ---- the reconciler: the configuration file is edited while the loop
\* runs, into a changed, an unparseable or a partly malformed one.
Edited ==
    Content(Funds(7, 10), <<StockInfo(ACode, <<Trans(2, 1), Trans(1, 3)>>, Some(1), None)>>,
            NoMarkets)

InitConfig ==
    InitWith(OneStock(Some(2), Some(1)), AllFiles(NoFile),
             Exposure({"fail"}, {"ok"}, {NoBar}, {2}, {},
                      {Edited, Unparseable, OneStock(Some(2), Some(1))}, {"poll"}),
             1, Morning, 1)

NextConfig ==
    \/ StartupQuote \/ EnterLoop \/ CycleStart \/ PollSymbol \/ Display
    \/ Reload \/ DateCheck \/ SaveToday \/ CycleSleep \/ EditConfig

SpecConfig == InitConfig /\ [][NextConfig]_vars

\* The configuration file cannot be parsed, or a value of it makes the
\* reconciliation fail part-way.
Malformed(content) ==
    \/ ~content.parses
    \/ FirstRaising(content.stocks) <= Len(content.stocks)

\* C6: the reconciliation of a malformed configuration changes nothing:
\* funds, polled symbols, market hours, privacy setting and every
\* SymbolState are as before.
C6_MalformedHasNoEffect ==
    [][pc = "reload" /\ cfg.mtime > config_file_mtime /\ Malformed(cfg.content)
         => UNCHANGED <<funds_config, stock_codes, market_hours_config,
                        privacy_mode, stock_states>>]_vars

\* The price fields of a SymbolState.
PriceFields(state) ==
    <<state.last_price, state.last_time, state.last_stock_name,
      state.last_update_time, state.last_change_pct>>

\* C10: a reconciliation leaves the price fields of every symbol that
\* already has a SymbolState as they were.
C10_ReconcileKeepsPrices ==
    [][pc = "reload" =>
         \A c \in DOMAIN stock_states :
             PriceFields(stock_states'[c]) = PriceFields(stock_states[c])]_vars

\* A symbol with a known price has been merged by a reconciliation that
\* changed its transactions and thresholds.
C10_Witness ==
    /\ ACode \in DOMAIN stock_states
    /\ ~IsNone(stock_states[ACode].last_price)
    /\ ~evals.fresh[ACode]
    /\ stock_states[ACode].transactions = <<Trans(2, 1), Trans(1, 3)>>
    /\ stock_states[ACode].alert_up = Some(1)

\* C11: the first successful poll of a symbol after a reconciliation that
\* covered it fires the up alert when the price is at or above alertUp and
\* the down alert when it is at or below alertDown, whatever fired before.
C11_ReconcileRearms ==
    ~IsNone(evals.last) /\ Val(evals.last).rearmed =>
        LET e == Val(evals.last)
        IN  /\ (~IsNone(e.alert_up) /\ e.price >= Val(e.alert_up)) => e.up
            /\ (~IsNone(e.alert_down) /\ e.price <= Val(e.alert_down)) => e.down

\* The up alert fired again after a reconciliation although the price had
\* stayed at the threshold since the poll before it.
C11_Witness ==
    /\ ~IsNone(evals.last)
    /\ Val(evals.last).rearmed
    /\ Val(evals.last).up
    /\ Val(evals.last).alert_up = Some(2)
    /\ Val(evals.last).prev = Some(2)
    /\ Val(evals.last).price = 2

\* ---- symbols leaving the configuration: two symbols polled at all hours,
\* and an edit of the file that drops the second one.
BothStocks ==
    Content(Funds(5, 10), <<StockInfo(ACode, <<Trans(2, 1)>>, None, None),
                            StockInfo(UCode, <<Trans(1, 2)>>, None, None)>>,
            NoMarkets)

InitRemoval ==
    InitWith(BothStocks, AllFiles(NoFile),
             Exposure({}, {"ok"}, {NoBar}, {2}, {},
                      {OneStock(None, None)}, {"poll"}),
             1, Morning, 1)

SpecRemoval == InitRemoval /\ [][NextConfig]_vars

\* The reconciler has read the current configuration file, and the symbol
\* is not in it.
Removed(c) ==
    /\ config_file_mtime = cfg.mtime
    /\ c \notin Range(CodesOf(load_holdings_config(cfg.content).stocks))

\* Two values of a SymbolState that differ at most by the time that has
\* passed since last_time was set.
Kept(before, after) ==
    /\ [after EXCEPT !.last_time = None] = [before EXCEPT !.last_time = None]
    /\ IsNone(after.last_time) <=> IsNone(before.last_time)
    /\ ~IsNone(before.last_time) => Val(after.last_time) >= Val(before.last_time)

\* C12: no step takes a symbol out of the state store; the SymbolState of a
\* symbol that is out of the configuration stays as it was when it was
\* removed; and no quote call is made for such a symbol.
C12_RemovedStateKept ==
    [][/\ DOMAIN stock_states \subseteq DOMAIN stock_states'
       /\ \A c \in DOMAIN stock_states :
             Removed(c)' => Kept(stock_states[c], stock_states'[c])
       /\ \A c \in evals'.quoted \ evals.quoted : ~Removed(c)]_vars

\* The second symbol has left the configuration with a known price, and a
\* later cycle has polled the first symbol only.
C12_Witness ==
    /\ Removed(UCode)
    /\ UCode \in DOMAIN stock_states
    /\ ~IsNone(stock_states[UCode].last_price)
    /\ pc = "display"
    /\ evals.quoted = {ACode}

\* ---- quotes that fail: two symbols polled at all hours, no edit of the
\* configuration.
InitStale ==
    InitWith(BothStocks, AllFiles(NoFile),
             Exposure({"fail"}, {"ok"}, {NoBar}, {2}, {}, {}, {"poll"}),
             1, Morning, 1)

SpecStale == InitStale /\ [][NextAlert]_vars

\* C13: a turn of the polling loop whose quote fails leaves the SymbolState
\* of the symbol as it was and moves on to the next configured symbol, or
\* to the display after the last one.
C13_FailedQuoteKeepsState ==
    [][(pc = "poll" /\ <<pc, idx>>' # <<pc, idx>> /\ evals'.outcome = "failed") =>
          /\ Kept(stock_states[stock_codes[idx]], stock_states'[stock_codes[idx]])
          /\ IF idx < Len(stock_codes)
             THEN pc' = "poll" /\ idx' = idx + 1
             ELSE pc' = "display"]_vars

\* The quote of the first symbol, whose price was known, has failed in the
\* loop, and the loop stands at the second symbol.
C13_Witness ==
    /\ pc = "poll"
    /\ idx = 2
    /\ evals.outcome = "failed"
    /\ ~IsNone(stock_states[ACode].last_price)

\* The loop has ended.
LoopEnded == pc \in {"exited", "aborted", "crashed", "returned"}

\* C14: an error raised in a cycle takes the loop to its error handler,
\* which sleeps the retry delay and starts a new cycle with every
\* SymbolState as it was; the loop ends only where an interrupt takes it
\* out.
C14_ErrorKeepsLooping ==
    [][/\ (pc = "display" /\ DisplayRaises(funds_config) /\ pc' # pc) =>
             pc' \in {"retry", "exited"}
       /\ (pc = "retry" /\ pc' \notin {"retry", "aborted"}) =>
             /\ pc' = "cycle"
             /\ calls'.slept = "retry"
             /\ DOMAIN stock_states' = DOMAIN stock_states
             /\ \A c \in DOMAIN stock_states : Kept(stock_states[c], stock_states'[c])
       /\ (InLoopBody \/ pc = "retry") /\ LoopEnded' =>
             (pc' \in {"exited", "aborted"} /\ intr'.delivered)]_vars

\* After an error and the retry sleep a new cycle is polling.
C14_Witness ==
    /\ pc = "poll"
    /\ calls.slept = "retry"
    /\ ~IsNone(stock_states[ACode].last_price)

\* ---- the trading-hours gate: one A-share whose market is enabled with a
\* first or a second window from 22:30 to 05:00, or with the usual day
\* windows, or on no weekday of the run; the run starts at 02:00, 10:00 or
\* 23:00.
HoursChoices ==
    {Market(1..7, Window(1350, 300), None),
     Market(1..7, None, Window(1350, 300)),
     Market(1..7, Window(570, 690), Window(780, 900)),
     Market({6, 7}, Window(1350, 300), None)}

TimesOfDay == {2 * 60, Morning, 23 * 60}

InitHours ==
    \E m \in HoursChoices, t \in TimesOfDay :
        InitWith(Content(Funds(5, 10), <<StockInfo(ACode, <<Trans(2, 1)>>, None, None)>>,
                         [a |-> m, us |-> NoMarket]),
                 AllFiles(NoFile),
                 Exposure({"fail"}, {"ok"}, {NoBar}, {2}, TimesOfDay, {}, {"poll"}),
                 1, t, 1)

NextHours == NextAlert \/ Tick

SpecHours == InitHours /\ [][NextHours]_vars

\* A window read as wrapping past midnight when it starts later than it ends.
WrapsAround(window, t) ==
    IF window.start > window.end
    THEN t >= window.start \/ t <= window.end
    ELSE window.start <= t /\ t <= window.end

\* A window read as one stretch of the day.
WithinDay(window, t) == window.start <= t /\ t <= window.end

\* The gate of the A-share market is open now.
GateOpen == is_trading_time(ACode, market_hours_config, weekday, tod)

\* The A-share market is enabled and today is one of its weekdays.
MarketDay ==
    /\ market_hours_config.a.enabled
    /\ weekday \in market_hours_config.a.weekdays

\* C15 as stated: on a day of an enabled market the gate is open exactly
\* when the first or the second window holds the time, either window
\* wrapping past midnight when its start is later than its end.
C15_AnyWindowWraps ==
    MarketDay =>
        LET m == market_hours_config.a
        IN  GateOpen <=> \/ ~IsNone(m.morning) /\ WrapsAround(Val(m.morning), tod)
                         \/ ~IsNone(m.afternoon) /\ WrapsAround(Val(m.afternoon), tod)

\* C15 as amended: the first window wraps past midnight when its start is
\* later than its end; the second window never does, and holds no time
\* when its start is later than its end.
C15_FirstWindowWraps ==
    MarketDay =>
        LET m == market_hours_config.a
        IN  GateOpen <=> \/ ~IsNone(m.morning) /\ WrapsAround(Val(m.morning), tod)
                         \/ ~IsNone(m.afternoon) /\ WithinDay(Val(m.afternoon), tod)

\* At 02:00 the symbol was polled through a first window 22:30-05:00.
C15_Witness ==
    /\ MarketDay
    /\ market_hours_config.a.morning = Window(1350, 300)
    /\ tod = 2 * 60
    /\ pc = "display"
    /\ evals.outcome = "ok"

\* C16: every cycle that has run persisted the snapshot of the current
\* date before the next cycle starts.
C16_PersistEveryCycle ==
    pc = "cycle" => roll.saved

\* ---- repeated persists: one symbol, daily bars that the provider gives
\* or not, the clock moving on.
InitPersist ==
    InitWith(OneStock(None, None), AllFiles(NoFile),
             Exposure({}, {"ok"}, {NoBar, Bar(1)}, {2}, {11 * 60}, {}, {"persist"}),
             1, Morning, 1)

SpecPersist == InitPersist /\ [][NextHours]_vars

\* Two file contents that differ at most in the timestamp.
SameButStamp(f, g) == [f EXCEPT !.timestamp = 0] = [g EXCEPT !.timestamp = 0]

\* The last two per-cycle persists were for the same date, both wrote, and
\* no SymbolState and no funds value was set between them.
SameStateTwice ==
    /\ Len(roll.two) = 2
    /\ roll.two[1].date = roll.two[2].date
    /\ roll.two[1].w = "ok" /\ roll.two[2].w = "ok"
    /\ roll.two[1].funds = roll.two[2].funds
    /\ DOMAIN roll.two[1].states = DOMAIN roll.two[2].states
    /\ \A c \in DOMAIN roll.two[1].states :
          Kept(roll.two[1].states[c], roll.two[2].states[c])

\* C17 as stated: two consecutive persists for today with the SymbolStates
\* and the funds unchanged leave the same file content but for the timestamp.
C17_PersistIdempotent ==
    SameStateTwice => SameButStamp(roll.two[1].file, roll.two[2].file)

\* C17 as amended: so they do when, besides, the provider gave the same
\* daily bars to both and the memory close cache is unchanged.
C17_PersistIdempotentSameBars ==
    (/\ SameStateTwice
     /\ roll.two[1].bars = roll.two[2].bars
     /\ roll.two[1].cache = roll.two[2].cache)
        => SameButStamp(roll.two[1].file, roll.two[2].file)

\* Two persists of an unchanged state with the same fetched bar, made at
\* different times of the day.
C17_Witness ==
    /\ SameStateTwice
    /\ roll.two[1].bars = roll.two[2].bars
    /\ roll.two[1].cache = roll.two[2].cache
    /\ roll.two[1].bars[ACode] = Bar(1)
    /\ roll.two[1].file.timestamp # roll.two[2].file.timestamp

\* ---- storage that fails: one symbol, writes of history/ that go through
\* or fail after the file was truncated, across a date rollover.
InitStorage ==
    InitWith(OneStock(None, None), AllFiles(NoFile),
             Exposure({}, {"ok", "truncate"}, {NoBar}, {2}, {}, {}, {"store"}),
             1, Morning, 1)

SpecStorage == InitStorage /\ [][NextRollover]_vars

\* What the quote asked in this step would have come to had the write of
\* the close cache file gone through.
HadItWritten ==
    LET a == Val(evals'.asked)
    IN  get_realtime_price(a.code, yesterday_close_cache, files, today, tod,
                           [a.o EXCEPT !.w = "ok"])

\* C18: a step whose snapshot write fails changes no SymbolState, leaves
\* the memory close cache as it was, leaves the remembered date as a
\* successful write does (the current date after the date check, untouched
\* by the per-cycle persist) and moves on to the next step of the cycle; a poll whose
\* write of the close cache file fails gives the quote and leaves the memory
\* close cache as it would be had the write gone through, and the cycle
\* goes on.
C18_StorageFailureSwallowed ==
    [][/\ (pc \in {"datecheck", "savetoday"} /\ pc' # pc /\ roll'.w \notin {"ok", "none"}) =>
             /\ stock_states' = stock_states
             /\ yesterday_close_cache' = yesterday_close_cache
             /\ last_saved_date' = IF pc = "datecheck" THEN Some(today)
                                   ELSE last_saved_date
             /\ pc' = IF pc = "datecheck" THEN "savetoday" ELSE "sleep"
       /\ (/\ pc \in {"startup", "poll"} /\ <<pc, idx>>' # <<pc, idx>>
           /\ Val(evals'.asked).o.w # "ok"
           /\ HadItWritten.fs # files) =>
             /\ yesterday_close_cache' = HadItWritten.cache
             /\ Val(evals'.asked).result = HadItWritten.result
             /\ pc' \in {"startup", "enter", "poll", "display"}]_vars

\* The write-back of a resolved previous close has failed, and the close is
\* in the memory cache; later the write of the snapshot at the rollover has
\* failed too and the cycle stands at the per-cycle persist.
C18_Witness ==
    /\ HasKey(yesterday_close_cache, ACode)
    /\ files[0] = CorruptFile
    /\ pc = "savetoday"
    /\ roll.w = "truncate"

\* C19: when a quote resolves a missing previous close from the provider
\* and writes it back to the cache file of the date, loading that file
\* gives the close back for the symbol.
C19_WriteBackIsReadBack ==
    [][(/\ pc \in {"startup", "poll"} /\ <<pc, idx>>' # <<pc, idx>>
        /\ Val(evals'.asked).o.w = "ok"
        /\ files' # files) =>
            LET code   == Val(evals'.asked).code
                loaded == load_yesterday_close_cache(files'[today - 1])
            IN  /\ HasKey(loaded, code)
                /\ loaded[code] = yesterday_close_cache'[code]]_vars

\* ---- the close cache across dates: one symbol polled in trading hours
\* on the days before and after midnight.
InitScope ==
    InitWith(OneStock(None, None), AllFiles(NoFile),
             Exposure({}, {"ok"}, {NoBar}, {2}, {Morning}, {}, {"scope", "roll"}),
             1, Morning, 1)

NextScope == NextRollover \/ Tick

SpecScope == InitScope /\ [][NextScope]_vars

\* C20: once the date check of the loop has rolled over to the current
\* date, a successful quote that takes the previous close from the memory
\* cache takes one that was cached on that date.
C20_CacheScopedToDate ==
    (/\ ~IsNone(evals.used)
     /\ Val(evals.used).seen = Some(Val(evals.used).at)
     /\ roll.count[Val(evals.used).at - 1] > 0) =>
        Val(evals.used).cached = Some(Val(evals.used).at)

\* ---- the figures of the display: two symbols polled at any hour, with
\* funds and positions that make the total assets positive or not.
MetricsChoices ==
    {Content(Funds(5, 10),
             <<StockInfo(ACode, <<Trans(2, 1)>>, None, None),
               StockInfo(UCode, << >>, None, None)>>, NoMarkets),
     Content(Funds(0 - 10, 0),
             <<StockInfo(ACode, <<Trans(2, 1), Trans(1, 2)>>, None, None),
               StockInfo(UCode, <<Trans(1, 1)>>, None, None)>>, NoMarkets),
     Content(Funds(4, 9),
             <<StockInfo(ACode, <<Trans(3, 1)>>, None, None),
               StockInfo(UCode, <<Trans(1, 2), Trans(0, 1)>>, None, None)>>, NoMarkets)}

InitMetrics ==
    \E content \in MetricsChoices :
        InitWith(content, AllFiles(NoFile),
                 Exposure({}, {"ok"}, {NoBar}, {2}, {}, {}, {}), 1, Morning, 1)

SpecMetrics == InitMetrics /\ [][NextAlert]_vars

\* What the display of the current state shows.
Shown == DisplayMetrics(stock_states, stock_codes, funds_config)

\* The configured symbols holding a position with a known price.
HeldCodes ==
    {c \in Range(stock_codes) :
        ~IsNone(stock_states[c].last_price) /\ stock_states[c].holding_quantity > 0}

\* The sum of a fraction-valued function over a set of its arguments.
RECURSIVE FracSum(_, _)
FracSum(f, S) ==
    IF S = {} THEN Frac(0, 1)
    ELSE LET c == CHOOSE x \in S : TRUE IN FracAdd(f[c], FracSum(f, S \ {c}))

\* C21: the total profit the display has just shown is the sum of the
\* per-symbol profits (lastPrice - avgCost) x quantity over the symbols
\* holding a position with a known price.
C21_TotalProfitIsSumOfProfits ==
    pc = "reload" =>
        FracEq(Frac(Shown.total_profit, 1),
               FracSum([c \in HeldCodes |-> Val(Shown.profit[c])], HeldCodes))

\* C22: in the display just shown, the total assets are the available
\* funds plus the sum of lastPrice x quantity over the configured symbols
\* holding a position with a known price, and the position percentage is
\* that sum over the total assets x 100, or 0 when the total assets are
\* not positive.
C22_AssetsAndPosition ==
    pc = "reload" =>
        LET value == FracSum([c \in HeldCodes |->
                                 Frac(Val(stock_states[c].last_price)
                                      * stock_states[c].holding_quantity, 1)],
                             HeldCodes)
            assets == FracAdd(Frac(funds_config.available_funds, 1), value)
        IN  /\ FracEq(Frac(Shown.total_holding_value, 1), value)
            /\ FracEq(Frac(Shown.total_assets, 1), assets)
            /\ IF Shown.total_assets > 0
               THEN FracEq(Shown.position_pct,
                           Frac(value.n * 100 * assets.d, value.d * assets.n))
               ELSE Shown.position_pct = Frac(0, 1)

\* The display has shown funds of 4 with two positions worth 3 x 2 + 1 x 2:
\* total assets 12 and a position of two thirds.
C22_Witness ==
    /\ pc = "reload"
    /\ funds_config.available_funds = 4
    /\ HeldCodes = {ACode, UCode}
    /\ Shown.total_holding_value = 8
    /\ Shown.total_assets = 12
    /\ FracEq(Shown.position_pct, Frac(200, 3))

\* ---- the cost calculator under reconciliation: a symbol whose
\* transaction list is drawn from lists with valid entries, entries of
\* quantity or price zero or negative, and none; the file is edited into
\* another such list, into one with a value float() rejects, or into two
\* symbols of which the second has such a value.
TransChoices ==
    {<< >>,
     <<Trans(2, 1)>>,
     <<Trans(2, 1), Trans(1, 2)>>,
     <<Trans(0, 1)>>,
     <<Trans(1, 0 - 1), Trans(0 - 1, 2)>>,
     <<Trans(2, 1), Trans(0 - 1, 2), Trans(1, 0)>>}

Holding(transactions) ==
    Content(Funds(5, 10), <<StockInfo(ACode, transactions, None, None)>>, NoMarkets)

HoldingEdits ==
    {Holding(t) : t \in TransChoices}
    \cup {Holding(<<Trans(2, 1), Trans(NotANumber, 1)>>),
          Content(Funds(5, 10),
                  <<StockInfo(ACode, <<Trans(1, 2)>>, None, None),
                    StockInfo(UCode, <<Trans(1, NotANumber)>>, None, None)>>,
                  NoMarkets)}

InitHolding ==
    \E t \in TransChoices :
        InitWith(Holding(t), AllFiles(NoFile),
                 Exposure({}, {"ok"}, {NoBar}, {2}, {}, HoldingEdits, {}), 1, Morning, 1)

SpecHolding == InitHolding /\ [][NextConfig]_vars

\* The transactions with quantity > 0 and price > 0, by position.
ValidAt(transactions) ==
    {i \in 1..Len(transactions) :
        transactions[i].quantity > 0 /\ transactions[i].price > 0}

\* The sum of an integer-valued function over a set of its arguments.
RECURSIVE IntSum(_, _)
IntSum(f, S) ==
    IF S = {} THEN 0
    ELSE LET c == CHOOSE x \in S : TRUE IN f[c] + IntSum(f, S \ {c})

\* The list without its first transaction that is not valid, if any.
DropInvalid(transactions) ==
    LET bad == (1..Len(transactions)) \ ValidAt(transactions)
    IN  IF bad = {} THEN transactions
        ELSE LET k == CHOOSE i \in bad : \A j \in bad : i <= j
             IN  SubSeq(transactions, 1, k - 1)
                 \o SubSeq(transactions, k + 1, Len(transactions))

\* C23: when the reconciler computes the holding of a configured
\* transaction list, the computation does not fail, the quantity is the
\* sum of the valid quantities, average cost x quantity is the sum of the
\* valid quantity x price, the result is (0, 0) when no transaction is
\* valid, and the list without an invalid transaction gives the same.
C23_HoldingOfAnyList ==
    [][(pc = "reload" /\ cfg.mtime > config_file_mtime /\ cfg.content.parses) =>
         \A i \in 1..Len(cfg.content.stocks) :
            LET t == cfg.content.stocks[i].transactions
                h == calculate_holding_from_transactions(t)
                v == ValidAt(t)
            IN  /\ ~TransactionsRaise(t)
                /\ h.quantity = IntSum([k \in v |-> t[k].quantity], v)
                /\ h.avg_price.n * h.quantity
                     = IntSum([k \in v |-> t[k].quantity * t[k].price], v)
                        * h.avg_price.d
                /\ (v = {} => h.quantity = 0 /\ h.avg_price = Frac(0, 1))
                /\ calculate_holding_from_transactions(DropInvalid(t)) = h]_vars

\* C30: every SymbolState has its average cost undefined iff its quantity
\* is 0, and its quantity and average cost are those the calculator gives
\* for the transaction list the state stores.
C30_HoldingMatchesTransactions ==
    \A c \in DOMAIN stock_states :
        LET state == stock_states[c]
            h     == calculate_holding_from_transactions(state.transactions)
        IN  /\ IsNone(state.holding_price) <=> state.holding_quantity = 0
            /\ state.holding_quantity = h.quantity
            /\ ~IsNone(state.holding_price) => Val(state.holding_price) = h.avg_price

\* A reconciliation has given a symbol with a known price a transaction
\* list without a valid entry: quantity 0 and no average cost.
C30_Witness ==
    /\ config_file_mtime > 0
    /\ ~IsNone(stock_states[ACode].last_price)
    /\ stock_states[ACode].transactions = <<Trans(1, 0 - 1), Trans(0 - 1, 2)>>
    /\ stock_states[ACode].holding_quantity = 0
    /\ IsNone(stock_states[ACode].holding_price)

\* The market of the symbol is enabled and now is outside its hours: the
\* weekday is not one of its weekdays, or the time is in neither window.
OutsideHours(stock_code) ==
    LET m == IF is_us_stock(stock_code) THEN market_hours_config.us
             ELSE market_hours_config.a
    IN  /\ m.enabled
        /\ \/ weekday \notin m.weekdays
           \/ /\ ~(~IsNone(m.morning) /\ WrapsAround(Val(m.morning), tod))
              /\ ~(~IsNone(m.afternoon) /\ WithinDay(Val(m.afternoon), tod))

\* C24: the turn of a cycle for a symbol that is outside the trading hours
\* of its market makes no provider call (no call is recorded, the request
\* clock is not reset, the symbol is not among those asked for in the
\* cycle) and leaves the SymbolState of the symbol as it was.
C24_SkippedOutsideHours ==
    [][(pc = "poll" /\ <<pc, idx>>' # <<pc, idx>> /\ OutsideHours(stock_codes[idx])) =>
         /\ stock_states'[stock_codes[idx]] = stock_states[stock_codes[idx]]
         /\ calls' = calls
         /\ last_request_age' = last_request_age
         /\ evals'.outcome = "skipped"
         /\ stock_codes[idx] \notin evals'.quoted
         /\ UNCHANGED <<yesterday_close_cache, files>>]_vars

\* On a weekday that is not a day of its market, a symbol with a known
\* price was skipped and the cycle went on to the display.
C24_Witness ==
    /\ pc = "display"
    /\ evals.outcome = "skipped"
    /\ ~MarketDay /\ market_hours_config.a.enabled
    /\ ACode \notin evals.quoted
    /\ ~IsNone(stock_states[ACode].last_price)

\* The step is a successful quote of the symbol at stock_codes[idx], in the
\* start-up pass or in a cycle.
QuotedNow ==
    /\ pc \in {"startup", "poll"}
    /\ <<pc, idx>>' # <<pc, idx>>
    /\ evals'.outcome = "ok"

\* C25 as stated: on a new price the up alert fires iff alertUp is set,
\* p >= alertUp and (the flag a firing sets is true or prev < alertUp), and
\* the down alert fires iff alertDown is set, p <= alertDown and (the flag
\* a firing sets is true or prev > alertDown).
C25_FiresWhileFlagSet ==
    [][QuotedNow =>
         LET state == stock_states[stock_codes[idx]]
             e     == Val(evals'.last)
         IN  /\ e.up <=>
                  /\ ~IsNone(state.alert_up)
                  /\ e.price >= Val(state.alert_up)
                  /\ \/ state.alert_triggered_up
                     \/ /\ ~IsNone(state.last_price)
                        /\ Val(state.last_price) < Val(state.alert_up)
             /\ e.down <=>
                  /\ ~IsNone(state.alert_down)
                  /\ e.price <= Val(state.alert_down)
                  /\ \/ state.alert_triggered_down
                     \/ /\ ~IsNone(state.last_price)
                        /\ Val(state.last_price) > Val(state.alert_down)]_vars

\* C25 as amended: the up alert fires iff alertUp is set, p >= alertUp and
\* (the flag a firing sets is false, or a previous price is recorded and
\* prev < alertUp); the down alert fires iff alertDown is set,
\* p <= alertDown and (the flag a firing sets is false, or a previous
\* price is recorded and prev > alertDown).
C25_FiresWhileFlagClear ==
    [][QuotedNow =>
         LET state == stock_states[stock_codes[idx]]
             e     == Val(evals'.last)
         IN  /\ e.up <=>
                  /\ ~IsNone(state.alert_up)
                  /\ e.price >= Val(state.alert_up)
                  /\ \/ ~state.alert_triggered_up
                     \/ /\ ~IsNone(state.last_price)
                        /\ Val(state.last_price) < Val(state.alert_up)
             /\ e.down <=>
                  /\ ~IsNone(state.alert_down)
                  /\ e.price <= Val(state.alert_down)
                  /\ \/ ~state.alert_triggered_down
                     \/ /\ ~IsNone(state.last_price)
                        /\ Val(state.last_price) > Val(state.alert_down)]_vars

\* A price at alertUp followed a price at alertUp with the flag set: the
\* up alert did not fire again.
C25_Witness ==
    /\ ~IsNone(evals.last)
    /\ evals.outcome = "ok"
    /\ Val(evals.last).alert_up = Some(2)
    /\ Val(evals.last).price = 2
    /\ Val(evals.last).prev = Some(2)
    /\ ~Val(evals.last).rearmed
    /\ ~Val(evals.last).up
    /\ stock_states[ACode].alert_triggered_up

\* ---- the throttle of the state update: one symbol with an up alert,
\* polled twice a second, while the configuration file is saved again.
InitThrottle ==
    InitWith(OneStock(Some(2), None), AllFiles(NoFile),
             Exposure({}, {"ok"}, {NoBar}, {2}, {}, {OneStock(Some(2), None)},
                      {"poll", "age"}),
             1, Morning, 1)

SpecThrottle == InitThrottle /\ [][NextConfig]_vars

\* The fields of a SymbolState a recorded sample writes, the sample clock
\* apart.
SampleFields(state) ==
    <<state.last_price, state.last_stock_name, state.last_update_time,
      state.last_change_pct>>

\* The quote of this step came back with the price of the last recorded
\* sample, less than one second after it.
Throttled ==
    LET state == stock_states[stock_codes[idx]]
        e     == Val(evals'.last)
    IN  /\ pc = "poll" /\ QuotedNow
        /\ state.last_price = Some(e.price)
        /\ ~IsNone(e.age) /\ Val(e.age) < ONE_SECOND

\* C26 as stated: a successful poll with the price of the last sample,
\* less than one second after it, leaves the SymbolState as it was.
C26_ThrottledPollKeepsState ==
    [][Throttled =>
         Kept(stock_states[stock_codes[idx]], stock_states'[stock_codes[idx]])]_vars

\* C26 as amended: such a poll leaves the recorded sample as it was (price,
\* name, update time, change percentage, and the sample clock not reset).
C26_ThrottledPollKeepsSample ==
    [][Throttled =>
         LET before == stock_states[stock_codes[idx]]
             after  == stock_states'[stock_codes[idx]]
         IN  /\ SampleFields(after) = SampleFields(before)
             /\ ~IsNone(after.last_time)
             /\ Val(after.last_time) >= Val(before.last_time)
             /\ Kept(before, [after EXCEPT
                                 !.alert_triggered_up = before.alert_triggered_up,
                                 !.alert_triggered_down = before.alert_triggered_down])]_vars

\* A quote came back with the price of the last sample, seven tenths of a
\* second after it, and the cycle went on to the display.
C26_Witness ==
    /\ pc = "display"
    /\ evals.outcome = "ok"
    /\ ~IsNone(evals.last)
    /\ Val(evals.last).age = Some(7)
    /\ Val(evals.last).prev = Some(Val(evals.last).price)
    /\ stock_states[ACode].last_price = Some(Val(evals.last).price)
    /\ Val(stock_states[ACode].last_time) >= 7

\* ---- the detector with both thresholds: alertDown below, at and above
\* alertUp.
ThresholdChoices == {<<Some(2), Some(1)>>, <<Some(2), Some(2)>>, <<Some(1), Some(2)>>}

InitThresholds ==
    \E a \in ThresholdChoices :
        InitWith(OneStock(a[1], a[2]), AllFiles(NoFile),
                 Exposure({"fail"}, {"ok"}, {NoBar}, {2}, {}, {}, {"poll"}), 1, Morning, 1)

SpecThresholds == InitThresholds /\ [][NextAlert]_vars

\* C27: after the alert evaluation of a new price p, the up-alert flag is
\* false if alertUp is set and p < alertUp, and the down-alert flag is
\* false if alertDown is set and p > alertDown.
C27_HysteresisReset ==
    [][QuotedNow =>
         LET after == stock_states'[stock_codes[idx]]
             p     == Val(evals'.last).price
         IN  /\ (~IsNone(after.alert_up) /\ p < Val(after.alert_up))
                   => ~after.alert_triggered_up
             /\ (~IsNone(after.alert_down) /\ p > Val(after.alert_down))
                   => ~after.alert_triggered_down]_vars

\* The up alert had fired at alertUp = 2; the price then fell to 1 and the
\* up-alert flag is false.
C27_Witness ==
    /\ evals.outcome = "ok"
    /\ ~IsNone(evals.last)
    /\ Val(evals.last).alert_up = Some(2)
    /\ Val(evals.last).prev = Some(2)
    /\ Val(evals.last).price = 1
    /\ ~stock_states[ACode].alert_triggered_up

\* C28: an alert evaluation fires both the up and the down alert only if
\* alertDown >= alertUp.
C28_BothOnlyIfInconsistent ==
    (~IsNone(evals.last) /\ Val(evals.last).up /\ Val(evals.last).down) =>
        Val(Val(evals.last).alert_down) >= Val(Val(evals.last).alert_up)

\* With alertUp = 1 and alertDown = 2 one price has fired both alerts.
C28_Witness ==
    /\ ~IsNone(evals.last)
    /\ Val(evals.last).up /\ Val(evals.last).down
    /\ Val(evals.last).alert_up = Some(1)
    /\ Val(evals.last).alert_down = Some(2)

\* ---- the last-modified marker: one symbol with an up alert; the file is
\* saved again unchanged, or with a second symbol whose transactions hold
\* a value float() rejects.
SecondMalformed ==
    Content(Funds(5, 10),
            <<StockInfo(ACode, <<Trans(2, 1)>>, Some(2), None),
              StockInfo(UCode, <<Trans(1, NotANumber)>>, None, None)>>, NoMarkets)

InitMarker ==
    InitWith(OneStock(Some(2), None), AllFiles(NoFile),
             Exposure({}, {"ok"}, {NoBar}, {2}, {},
                      {OneStock(Some(2), None), SecondMalformed}, {"poll", "seen"}),
             1, Morning, 1)

SpecMarker == InitMarker /\ [][NextConfig]_vars

\* Position, thresholds and alert flags of a SymbolState.
ConfiguredFields(state) ==
    <<state.transactions, state.holding_quantity, state.holding_price,
      state.alert_up, state.alert_down,
      state.alert_triggered_up, state.alert_triggered_down>>

\* The reconciliation step leaves position, thresholds and alert flags of
\* every symbol as they were, and adds no symbol.
ReconcilesNothing ==
    /\ DOMAIN stock_states' = DOMAIN stock_states
    /\ \A c \in DOMAIN stock_states :
          ConfiguredFields(stock_states'[c]) = ConfiguredFields(stock_states[c])

\* C29: the reconciliation step of a cycle reconciles only when the marker
\* of the file is newer than the remembered one, a reconciliation that
\* went through leaves the remembered marker equal to the file's, and the
\* step of a cycle in which the file was not modified (its marker is the
\* one the step of the cycle before has looked at) changes no position,
\* threshold or alert flag.
C29_ReconcileOnlyWhenModified ==
    [][(pc = "reload" /\ pc' # pc) =>
         /\ cfg.mtime <= config_file_mtime => ReconcilesNothing
         /\ (cfg.mtime > config_file_mtime /\ ~Malformed(cfg.content))
               => config_file_mtime' = cfg.mtime
         /\ evals.seen = cfg.mtime => ReconcilesNothing]_vars

\* ---- the previous close of a quote: one A-share (EM branch) or one US
\* ticker (XQ branch) polled across a date rollover, a provider that may
\* carry no previous close, storage that works.
ResolveChoices ==
    {OneStock(None, None),
     Content(Funds(5, 10), <<StockInfo(UCode, <<Trans(2, 1)>>, None, None)>>, NoMarkets)}

InitResolve ==
    \E content \in ResolveChoices :
        InitWith(content, AllFiles(NoFile),
                 Exposure({}, {"ok"}, {NoBar}, {2}, {}, {}, {"store"}),
                 1, Morning, 1)

SpecResolve == InitResolve /\ [][NextRollover]_vars

\* The previous close the provider call that answered carries, if any.
ProviderClose(stock_code, o) ==
    IF is_us_stock(stock_code) THEN o.prev
    ELSE IF o.q = "ok" THEN (IF o.sq = "ok" THEN o.prev ELSE None)
    ELSE o.prev2

\* This step is a quote of the start-up pass or of the loop that came back
\* with a price.
ResolvedNow ==
    /\ pc \in {"startup", "poll"}
    /\ <<pc, idx>>' # <<pc, idx>>
    /\ ~IsNone(evals'.asked)
    /\ ~IsNone(Val(evals'.asked).result)

\* Where the previous close of the quote of this step has to come from.
CloseSource ==
    LET code == Val(evals'.asked).code
    IN  IF HasKey(yesterday_close_cache, code) THEN "memory"
        ELSE IF HasKey(load_yesterday_close_cache(files[today - 1]), code) THEN "file"
        ELSE IF ~IsNone(ProviderClose(code, Val(evals'.asked).o)) THEN "provider"
        ELSE "price"

\* C31: the previous close of a successful quote is the memory cache's
\* value, else the value of the cache file of the day before, else the
\* provider's previous close, else the current price; a provider value is
\* then in the memory cache and in that file, a current-price fallback
\* leaves both as they were and the sample written from it has a change
\* percentage of 0.
C31_CloseResolution ==
    [][ResolvedNow =>
        LET a    == Val(evals'.asked)
            code == a.code
            q    == Val(a.result)
            file == load_yesterday_close_cache(files[today - 1])
        IN  CASE CloseSource = "memory" ->
                    q.yesterday_close = yesterday_close_cache[code]
              [] CloseSource = "file" ->
                    q.yesterday_close = file[code]
              [] CloseSource = "provider" ->
                    /\ q.yesterday_close = Val(ProviderClose(code, a.o))
                    /\ HasKey(yesterday_close_cache', code)
                    /\ yesterday_close_cache'[code] = q.yesterday_close
                    /\ files'[today - 1].kind = "cache"
                    /\ HasKey(files'[today - 1].map, code)
                    /\ files'[today - 1].map[code] = q.yesterday_close
              [] OTHER ->
                    /\ q.yesterday_close = q.price
                    /\ yesterday_close_cache' = yesterday_close_cache
                    /\ files' = files
                    /\ (stock_states'[code].last_time = Some(0)
                        => stock_states'[code].last_change_pct.n = 0)]_vars

\* After the rollover a quote took its close from the snapshot of the day
\* before, the memory cache holding none for the symbol.
C31_Witness ==
    /\ today = 2
    /\ ~HasKey(yesterday_close_cache, UCode)
    /\ files[1].kind = "snapshot"
    /\ HasKey(load_yesterday_close_cache(files[1]), UCode)
    /\ ~IsNone(evals.asked)
    /\ Val(evals.asked).code = UCode
    /\ ~IsNone(Val(evals.asked).result)
    /\ Val(Val(evals.asked).result).yesterday_close
           = load_yesterday_close_cache(files[1])[UCode]
    /\ Val(Val(evals.asked).result).yesterday_close
           # Val(Val(evals.asked).result).price

\* ---- alert flags against the last price: one symbol with both
\* thresholds, quotes that may fail, and a configuration saved with a
\* lowered up threshold and no down threshold, with a raised up threshold,
\* or with a raised up threshold and a second symbol that float() rejects.
RaisedMalformed ==
    Content(Funds(5, 10),
            <<StockInfo(ACode, <<Trans(2, 1)>>, Some(3), None),
              StockInfo(UCode, <<Trans(1, NotANumber)>>, None, None)>>, NoMarkets)

InitFlags ==
    InitWith(OneStock(Some(2), Some(1)), AllFiles(NoFile),
             Exposure({"fail"}, {"ok"}, {NoBar}, {2}, {},
                      {OneStock(Some(1), None), OneStock(Some(3), Some(1)),
                       RaisedMalformed}, {}),
             1, Morning, 1)

SpecFlags == InitFlags /\ [][NextConfig]_vars

\* C32: between the steps of the engine, a symbol whose up-alert flag is set
\* has an alertUp and a known lastPrice at or above it, and a symbol whose
\* down-alert flag is set has an alertDown and a known lastPrice at or
\* below it.
C32_FlagsMatchLastPrice ==
    \A c \in DOMAIN stock_states :
        LET state == stock_states[c]
        IN  /\ state.alert_triggered_up =>
                /\ ~IsNone(state.alert_up)
                /\ ~IsNone(state.last_price)
                /\ Val(state.last_price) >= Val(state.alert_up)
            /\ state.alert_triggered_down =>
                /\ ~IsNone(state.alert_down)
                /\ ~IsNone(state.last_price)
                /\ Val(state.last_price) <= Val(state.alert_down)

\* The up flag stands again after a reconciliation lowered alertUp to 1,
\* dropped alertDown and cleared the flags, and a later poll at 1.
C32_Witness ==
    /\ config_file_mtime = 1
    /\ pc = "poll"
    /\ stock_states[ACode].alert_up = Some(1)
    /\ IsNone(stock_states[ACode].alert_down)
    /\ stock_states[ACode].alert_triggered_up
    /\ ~stock_states[ACode].alert_triggered_down
    /\ stock_states[ACode].last_price = Some(1)

\* ---- the last price against the polled prices: one symbol with an up
\* alert, polled twice a second by quotes that may fail, while the
\* configuration file is saved with a lowered threshold.
InitLatest ==
    InitWith(OneStock(Some(2), None), AllFiles(NoFile),
             Exposure({"fail"}, {"ok"}, {NoBar}, {2}, {}, {OneStock(Some(1), None)},
                      {"age"}),
             1, Morning, 1)

SpecLatest == InitLatest /\ [][NextConfig]_vars

\* C33: the lastPrice of every symbol is the price of its latest successful
\* quote (none if it has had none), whether or not the throttle let the
\* sample be rewritten; so the previous price an alert evaluation reads is
\* the latest successfully polled price.
C33_LastPriceIsLatestPolled ==
    \A c \in DOMAIN stock_states : stock_states[c].last_price = evals.polled[c]

\* A quote came back less than one second after the last recorded sample
\* with the same price, after a reconciliation, and lastPrice is that price.
C33_Witness ==
    /\ config_file_mtime = 1
    /\ ~IsNone(evals.last)
    /\ ~IsNone(Val(evals.last).age)
    /\ Val(Val(evals.last).age) < ONE_SECOND
    /\ Val(evals.last).prev = Some(Val(evals.last).price)
    /\ stock_states[ACode].last_price = Some(Val(evals.last).price)
    /\ ~IsNone(stock_states[ACode].last_time)
    /\ Val(stock_states[ACode].last_time) > 0

\* ---- the symbol list against the state store: one symbol, and a
\* configuration saved with a symbol added, with an added symbol that
\* float() rejects, or with an added symbol followed by the known one in a
\* form float() rejects.
AddedMalformed ==
    Content(Funds(5, 10),
            <<StockInfo(ACode, <<Trans(2, 1)>>, None, None),
              StockInfo(UCode, <<Trans(1, NotANumber)>>, None, None)>>, NoMarkets)

AddedThenMalformed ==
    Content(Funds(5, 10),
            <<StockInfo(UCode, <<Trans(1, 2)>>, None, None),
              StockInfo(ACode, <<Trans(2, NotANumber)>>, None, None)>>, NoMarkets)

InitListed ==
    InitWith(OneStock(None, None), AllFiles(NoFile),
             Exposure({}, {"ok"}, {NoBar}, {2}, {},
                      {BothStocks, AddedMalformed, AddedThenMalformed}, {}),
             1, Morning, 1)

SpecListed == InitListed /\ [][NextConfig]_vars

\* C34: every symbol of the polled symbol list has an entry in the state
\* store.
C34_ListedSymbolsHaveState ==
    \A i \in 1..Len(stock_codes) : stock_codes[i] \in DOMAIN stock_states

\* A reconciliation added the US ticker to the store and then failed at the
\* next symbol: the list is the old one and the marker was not advanced,
\* and the cycle went on.
C34_Witness ==
    /\ stock_codes = <<ACode>>
    /\ UCode \in DOMAIN stock_states
    /\ cfg.content = AddedThenMalformed
    /\ config_file_mtime = 0
    /\ pc = "poll"

\* C35: with no end-of-day bar obtainable, the totalHoldingValue of the
\* snapshot a cycle writes for today is the total holding value the display
\* computes from the same state store and funds, also after a symbol was
\* removed from the configuration.
C35_SnapshotTotalIsDisplayTotal ==
    [][(/\ pc = "savetoday"
        /\ pc' = "sleep"
        /\ files'[today].kind = "snapshot") =>
          files'[today].funds.total_holding_value
              = DisplayMetrics(stock_states, stock_codes,
                               funds_config).total_holding_value]_vars

\* ---- cycles aborted around midnight: one symbol, a reconciliation step
\* whose look at the file may raise, and days that pass.
InitCheck ==
    InitWith(OneStock(None, None), AllFiles(NoFile),
             Exposure({}, {"ok"}, {NoBar}, {2}, {}, {}, {"count"}),
             1, Morning, 1)

NextCheck == NextRollover \/ ReloadRaises \/ RetrySleep

SpecCheck == InitCheck /\ [][NextCheck]_vars

\* C36: the remembered date changes only when the loop is entered and in
\* the date check; a date check that finds a remembered date other than
\* today's makes the one rollover write of that date and remembers today,
\* and a date check that finds today's date makes none.
C36_RolloverSurvivesAborts ==
    [][/\ last_saved_date' # last_saved_date => pc \in {"enter", "datecheck"}
       /\ (pc = "datecheck" /\ pc' # pc) =>
             /\ last_saved_date' = Some(today)
             /\ IF ~IsNone(last_saved_date) /\ Val(last_saved_date) # today
                THEN roll'.count = [roll.count EXCEPT ![Val(last_saved_date)] = 1]
                ELSE roll'.count = roll.count]_vars

\* Cycles were aborted on day 1 and on day 2, and the first date check after
\* them has made the rollover write of day 1.
C36_Witness ==
    /\ roll.aborted = {1, 2}
    /\ today = 2
    /\ pc = "savetoday"
    /\ last_saved_date = Some(2)
    /\ roll.count[1] = 1
    /\ files[2].kind = "none"

\* ---- the start-up pass: no symbol, or an A-share and a US ticker with
\* their trading hours, started at 10:00 or at the cutoff (both markets
\* closed), with quotes that may fail.
NoStocks == Content(Funds(5, 10), << >>, NoMarkets)

InitStart ==
    \E content \in {TwoStocks, NoStocks}, minute \in {Morning, Cutoff} :
        InitWith(content, AllFiles(NoFile),
                 Exposure({"fail"}, {"ok"}, {NoBar}, {2}, {}, {}, {"poll"}),
                 1, minute, 1)

SpecStart == InitStart /\ [][NextAlert]_vars

\* C37: when the start-up pass is over it has asked a quote for every
\* configured symbol, whatever the hour; while no symbol has had a
\* successful quote the engine is in the start-up pass, about to leave, or
\* has returned; and an engine that returned has written no file.
C37_LoopOnlyAfterAQuote ==
    /\ pc = "enter" => evals.quoted = Range(stock_codes)
    /\ (\A c \in Codes : IsNone(evals.polled[c])) =>
           pc \in {"startup", "enter", "returned"}
    /\ pc = "returned" =>
           /\ \A c \in Codes : IsNone(evals.polled[c])
           /\ \A d \in 0..MaxDate : files[d] = NoFile

\* Started at the cutoff with both markets closed, the start-up pass asked
\* both symbols, both quotes failed, and the engine returned.
C37_Witness ==
    /\ pc = "returned"
    /\ tod = Cutoff
    /\ Len(stock_codes) = 2
    /\ evals.quoted = {ACode, UCode}
    /\ evals.outcome = "failed"
    /\ ~initialized

=============================================================================
